---- MODULE Spec2Model ----
(***************************************************************************)
(* CareerBuddy desktop app: the AI Buddy chat session (ui_qt/aibuddy.py)   *)
(* over the SQLite store (services/db.py).                                 *)
(*                                                                         *)
(* Text is modelled as a sequence of one-character strings, so that        *)
(* strip / split / lower / int() / LIKE are computed as the code computes  *)
(* them.                                                                   *)
(***************************************************************************)
EXTENDS Integers, Sequences, FiniteSets, TLC

VARIABLES
    pc,               \* "constructed" until _init_chat has run, then "ready";
                      \* "file_dialog" and "message_box" while upload_file waits
                      \* in the event loop of its dialog
    picked,           \* upload_file's local att while its message box is open
                      \* (<<>>: none)
    conversations,    \* table ai_conversations: sequence of ids in insertion order
    messages,         \* table ai_messages: rows [id, conv, role, content] in insertion order
    memories,         \* table ai_memories: rows [id, type, content, importance, pinned]
    jobs,             \* table jobs: rows [id, company, role, status, date_added]
    reminders,        \* table reminders: rows [id, title, date, time, category]
    files,            \* table files: rows [id, filename, original_name, category, date_added]
    today,            \* datetime.now().date() as a day number
    conversation_id,  \* AIBuddyPage._conversation_id (0 is None)
    attachments,      \* AIBuddyPage._attachments: records [name, label, text]
    worker,           \* AIBuddyPage._worker: "idle" (None, or run() has returned),
                      \* "streaming" (run() is reading the stream) or "emitted"
                      \* (run() has emitted done or error and has not returned yet)
    workerMsgs,       \* the message list the worker was started with
    signal,           \* the done/error signals queued for the GUI thread
    btn_send,         \* btn_send.isEnabled()
    btn_upload,       \* btn_upload.isEnabled()
    raised,           \* the GUI handler of the page entered last ended by an
                      \* exception leaving it
    reply             \* the bubble the GUI handler of the page entered last wrote:
                      \* a command's answer, new_chat's greeting, _on_error's
                      \* warning

\* what the AI Buddy page only reads
envVars  == <<jobs, reminders, files, today>>
\* the stream worker and what its callbacks touch
runVars  == <<worker, workerMsgs, signal, btn_send, btn_upload>>
vars     == <<pc, picked, conversations, messages, memories, jobs, reminders, files, today,
              conversation_id, attachments, worker, workerMsgs, signal,
              btn_send, btn_upload, raised, reply>>

-----------------------------------------------------------------------------
(* Bounds of the model *)

\* what a session may hold (see Load)
MaxRows == 4
\* rows a caller of the store may insert into one table
MaxInserts == 3
MaxChars == 3
MaxDays == 1
\* writes of the other pages and midnights one session sees
MaxWrites == 1
\* messages an earlier session left in the store
StoredCount == 15

(* Program constants *)

\* _build_messages: ai_get_messages(self._conversation_id, limit=16)
HistoryLimit == 16
\* _memory_context: ai_list_memories(pinned_first=True, limit=50)
PinnedLimit == 50
\* _memory_context: ai_search_memories(user_text, limit=20)
RelevantLimit == 20
\* _attachments_context: self._attachments[-3:]
AttachTail == 3
\* /remember: ai_add_memory("fact", content, importance=6, pinned=0)
RememberImportance == 6
\* ai_add_memory(..., importance: int = 5, ...)
DefaultImportance == 5

-----------------------------------------------------------------------------
(* Text: Python str operations on sequences of characters *)

UpperChars == <<"A","B","C","D","E","F","G","H","I","J","K","L","M",
                "N","O","P","Q","R","S","T","U","V","W","X","Y","Z">>
LowerChars == <<"a","b","c","d","e","f","g","h","i","j","k","l","m",
                "n","o","p","q","r","s","t","u","v","w","x","y","z">>
DigitChars == <<"0","1","2","3","4","5","6","7","8","9">>

\* the whitespace of C's isspace (Py_ISSPACE), which int() skips around a
\* literal: space, \t, \n, vertical tab (U+000B, written as the character
\* itself), \f, \r
IntSpaceChars == {" ", "\t", "\n", "", "\f", "\r"}

\* the ASCII characters str.isspace holds of, which str.strip and str.split
\* take for whitespace: those of IntSpaceChars and the separators U+001C to
\* U+001F (written as the characters themselves)
WhitespaceChars == IntSpaceChars \cup {"", "", "", ""}

\* str.isspace for one character
IsSpace(c) == c \in WhitespaceChars

\* the case folding of SQLite's LIKE: the 26 ASCII letters only
AsciiLower(c) ==
    IF \E i \in 1..26 : UpperChars[i] = c
    THEN LowerChars[CHOOSE i \in 1..26 : UpperChars[i] = c]
    ELSE c

\* str.lower for one character: the ASCII letters and the e acute, the one
\* letter outside ASCII the page looks for (keyword "résumé")
LowerChar(c) == IF c = "É" THEN "é" ELSE AsciiLower(c)

\* str.lower()
Lower(s) == [i \in 1..Len(s) |-> LowerChar(s[i])]

\* s with the leading and trailing characters of `chars` removed
StripOf(s, chars) ==
    LET keep == {i \in 1..Len(s) : s[i] \notin chars}
    IN  IF keep = {} THEN <<>>
        ELSE LET lo == CHOOSE i \in keep : \A j \in keep : i <= j
                 hi == CHOOSE i \in keep : \A j \in keep : j <= i
             IN  SubSeq(s, lo, hi)

\* str.strip(): leading and trailing whitespace removed
Strip(s) == StripOf(s, WhitespaceChars)

\* the end of str.strip() on a text that starts with a non-blank character:
\* trailing whitespace removed
RStrip(s) ==
    LET nonsp == {i \in 1..Len(s) : ~IsSpace(s[i])}
    IN  IF nonsp = {} THEN <<>>
        ELSE SubSeq(s, 1, CHOOSE i \in nonsp : \A j \in nonsp : j <= i)

\* str.startswith
StartsWith(s, p) == Len(p) <= Len(s) /\ SubSeq(s, 1, Len(p)) = p

\* `sub in s`
Contains(s, sub) ==
    \E i \in 0..(Len(s) - Len(sub)) : SubSeq(s, i + 1, i + Len(sub)) = sub

\* str.split(maxsplit=n) with the whitespace separator
RECURSIVE Split(_, _)
Split(s, maxsplit) ==
    LET nonsp == {i \in 1..Len(s) : ~IsSpace(s[i])}
    IN  IF nonsp = {} THEN <<>>
        ELSE LET lo == CHOOSE i \in nonsp : \A j \in nonsp : i <= j
                 rest == SubSeq(s, lo, Len(s))
             IN  IF maxsplit = 0 THEN <<rest>>
                 ELSE LET sp == {i \in 1..Len(rest) : IsSpace(rest[i])}
                      IN  IF sp = {} THEN <<rest>>
                          ELSE LET e == CHOOSE i \in sp : \A j \in sp : i <= j
                               IN  <<SubSeq(rest, 1, e - 1)>> \o
                                   Split(SubSeq(rest, e, Len(rest)), maxsplit - 1)

IsDigit(c) == \E i \in 1..10 : DigitChars[i] = c
DigitVal(c) == (CHOOSE i \in 1..10 : DigitChars[i] = c) - 1

\* the digits of an int literal: digits with single underscores between them
DigitsOk(d) ==
    /\ Len(d) > 0
    /\ IsDigit(d[1]) /\ IsDigit(d[Len(d)])
    /\ \A i \in 1..Len(d) : IsDigit(d[i]) \/ d[i] = "_"
    /\ \A i \in 1..(Len(d) - 1) : ~(d[i] = "_" /\ d[i + 1] = "_")

RECURSIVE DigitsVal(_)
DigitsVal(d) ==
    IF Len(d) = 0 THEN 0
    ELSE LET c == d[Len(d)]
             front == SubSeq(d, 1, Len(d) - 1)
         IN  IF c = "_" THEN DigitsVal(front)
             ELSE 10 * DigitsVal(front) + DigitVal(c)

\* int(s) succeeds (otherwise it raises ValueError)
IntOk(s) ==
    LET t == StripOf(s, IntSpaceChars)
    IN  /\ Len(t) > 0
        /\ IF t[1] \in {"+", "-"} THEN DigitsOk(Tail(t)) ELSE DigitsOk(t)

\* int(s)
IntVal(s) ==
    LET t == StripOf(s, IntSpaceChars)
    IN  IF t[1] = "-" THEN 0 - DigitsVal(Tail(t))
        ELSE IF t[1] = "+" THEN DigitsVal(Tail(t))
        ELSE DigitsVal(t)

\* SQLite `s LIKE pat`: % is any run of characters, _ is any one character,
\* ASCII letters compare without case; no ESCAPE character
RECURSIVE LikeMatch(_, _)
LikeMatch(pat, s) ==
    IF Len(pat) = 0 THEN Len(s) = 0
    ELSE IF pat[1] = "%"
         THEN \E k \in 0..Len(s) : LikeMatch(Tail(pat), SubSeq(s, k + 1, Len(s)))
         ELSE /\ Len(s) > 0
              /\ (pat[1] = "_" \/ AsciiLower(pat[1]) = AsciiLower(s[1]))
              /\ LikeMatch(Tail(pat), Tail(s))

-----------------------------------------------------------------------------
(* The store: services/db.py.  Timestamps (ts, created_at) are not modelled. *)

Range(seq) == {seq[i] : i \in 1..Len(seq)}

Min(a, b) == IF a <= b THEN a ELSE b

Reverse(seq) == [i \in 1..Len(seq) |-> seq[Len(seq) + 1 - i]]

\* cur.lastrowid of an INSERT into a table with INTEGER PRIMARY KEY: max(id) + 1
NextId(ids) == IF ids = {} THEN 1 ELSE (CHOOSE m \in ids : \A x \in ids : x <= m) + 1

\* SQL LIMIT n: a negative n is no limit
Limit(rows, n) == IF n < 0 THEN rows ELSE SubSeq(rows, 1, Min(n, Len(rows)))

\* ORDER BY id DESC
IdDescBefore(a, b) == a.id > b.id

\* ORDER BY pinned DESC, importance DESC, id DESC
MemOrderBefore(a, b) ==
    \/ a.pinned > b.pinned
    \/ a.pinned = b.pinned /\ a.importance > b.importance
    \/ a.pinned = b.pinned /\ a.importance = b.importance /\ a.id > b.id

\* ORDER BY date_added DESC; rows of one date come in rowid order
DateDescBefore(a, b) == a.date > b.date \/ (a.date = b.date /\ a.id < b.id)

\* ORDER BY time (list_reminders_for_date)
TimeBefore(a, b) == a.time < b.time \/ (a.time = b.time /\ a.id < b.id)

\* row a comes before row b under the ORDER BY clause `order`
Before(order, a, b) ==
    IF order = "id DESC" THEN IdDescBefore(a, b)
    ELSE IF order = "pinned DESC, importance DESC, id DESC" THEN MemOrderBefore(a, b)
    ELSE IF order = "date_added DESC" THEN DateDescBefore(a, b)
    ELSE TimeBefore(a, b)

\* SQL ORDER BY over rows with distinct ids: the row at place i has i - 1 rows before it
OrderBy(rows, order) ==
    LET S == Range(rows)
    IN  [i \in 1..Cardinality(S) |->
            CHOOSE r \in S : Cardinality({x \in S : Before(order, x, r)}) = i - 1]

\* WHERE conversation_id=?
OfConversation(rows, conv) == SelectSeq(rows, LAMBDA r : r.conv = conv)

\* ai_list_conversations(limit): ids, newest first
ai_list_conversations(limit) ==
    Limit(OrderBy([i \in 1..Len(conversations) |-> [id |-> conversations[i]]],
                  "id DESC"), limit)

\* ai_get_messages with ORDER BY id ASC in place of DESC and no reversal: the
\* first `limit` rows of the conversation
GetMessagesOldest(rows, conv, limit) ==
    Limit(Reverse(OrderBy(OfConversation(rows, conv), "id DESC")), limit)

\* ai_get_messages over the table `rows`: the last `limit` rows of the
\* conversation, oldest first
GetMessages(rows, conv, limit) ==
    Reverse(Limit(OrderBy(OfConversation(rows, conv), "id DESC"), limit))

\* ai_get_messages(conversation_id, limit)
ai_get_messages(conv, limit) == GetMessages(messages, conv, limit)

\* ai_list_memories running the pinned-first query whatever pinned_first is
ListMemoriesPinnedFirst(pinned_first, limit) ==
    Limit(OrderBy(memories, "pinned DESC, importance DESC, id DESC"), limit)

\* ai_list_memories(pinned_first, limit)
ai_list_memories(pinned_first, limit) ==
    IF pinned_first
    THEN Limit(OrderBy(memories, "pinned DESC, importance DESC, id DESC"), limit)
    ELSE Limit(OrderBy(memories, "id DESC"), limit)

\* the LIKE pattern ai_search_memories builds: f"%{(query or '').strip()}%"
SearchPattern(query) == <<"%">> \o Strip(query) \o <<"%">>

\* ai_search_memories(query, limit)
ai_search_memories(query, limit) ==
    Limit(OrderBy(SelectSeq(memories, LAMBDA m : LikeMatch(SearchPattern(query), m.content)),
                  "pinned DESC, importance DESC, id DESC"), limit)

\* ai_add_message putting the new row before the stored ones
AddMessageFirst(rows, conv, role, content) ==
    <<[id |-> NextId({r.id : r \in Range(rows)}),
       conv |-> conv, role |-> role, content |-> content]>> \o rows

\* ai_add_memory storing every memory as pinned
AddMemoryPinned(rows, mem_type, content, importance, pinned) ==
    Append(rows, [id |-> NextId({r.id : r \in Range(rows)}), type |-> mem_type,
                  content |-> content, importance |-> importance, pinned |-> 1])

\* ai_delete_memory with WHERE id>=? in place of WHERE id=?
DeleteMemoryAndNewer(rows, memory_id) == SelectSeq(rows, LAMBDA r : r.id < memory_id)

\* the table after ai_add_message(conversation_id, role, content)
AddMessage(rows, conv, role, content) ==
    Append(rows, [id |-> NextId({r.id : r \in Range(rows)}),
                  conv |-> conv, role |-> role, content |-> content])

\* the table after ai_add_memory(mem_type, content, importance, pinned)
AddMemory(rows, mem_type, content, importance, pinned) ==
    Append(rows, [id |-> NextId({r.id : r \in Range(rows)}), type |-> mem_type,
                  content |-> content, importance |-> importance, pinned |-> pinned])

\* ai_set_memory_pinned flipping the flag instead of writing the given one
SetMemoryPinnedFlipping(rows, memory_id, pinned) ==
    [i \in 1..Len(rows) |->
        IF rows[i].id = memory_id
        THEN [rows[i] EXCEPT !.pinned = 1 - rows[i].pinned] ELSE rows[i]]

\* the table after ai_set_memory_pinned(memory_id, pinned): UPDATE ... WHERE id=?
SetMemoryPinned(rows, memory_id, pinned) ==
    [i \in 1..Len(rows) |->
        IF rows[i].id = memory_id THEN [rows[i] EXCEPT !.pinned = pinned] ELSE rows[i]]

\* the table after ai_delete_memory(memory_id): DELETE ... WHERE id=?
DeleteMemory(rows, memory_id) == SelectSeq(rows, LAMBDA r : r.id # memory_id)

\* get_all_jobs()
get_all_jobs == OrderBy(jobs, "date_added DESC")

\* list_files("All")
list_files == OrderBy(files, "date_added DESC")

\* list_reminders_for_date(date)
list_reminders_for_date(d) == OrderBy(SelectSeq(reminders, LAMBDA r : r.date = d), "time")

-----------------------------------------------------------------------------
(* Context building: ui_qt/aibuddy.py.  A context entry is                 *)
(* [role, kind, text, sections]; a rendered section is [title, lines] and  *)
(* a rendered line is [id, tag, name, text].                               *)

NoSections == <<>>
NoText == <<>>

Line(id, tag, name, text) == [id |-> id, tag |-> tag, name |-> name, text |-> text]

Entry(role, kind, text, sections) ==
    [role |-> role, kind |-> kind, text |-> text, sections |-> sections]

\* "[No extracted text available]"
NoExtractedText == <<"[No extracted text available]">>

\* _attachments_context over every attachment, without the [-3:]
AllAttachments(atts) == atts

\* self._attachments[-3:]
LastAttachments(atts) == SubSeq(atts, IF Len(atts) > AttachTail THEN Len(atts) - AttachTail + 1 ELSE 1, Len(atts))

\* _attachments_context(): "" (no sections) when there is no attachment. The
\* joined text starts with its heading and ends with a stripped text or with
\* "[No extracted text available]", so its final strip() removes nothing
AttachmentsContext(atts) ==
    IF Len(atts) = 0 THEN NoSections
    ELSE LET last == LastAttachments(atts)
         IN  <<[title |-> "Attached documents",
                lines |-> [i \in 1..Len(last) |->
                    Line(0, last[i].label, last[i].name,
                         IF Strip(last[i].text) # <<>> THEN Strip(last[i].text)
                         ELSE NoExtractedText)]]>>

\* the lines "- [#id] (type) content" of _memory_context
MemLines(rows) == [i \in 1..Len(rows) |-> Line(rows[i].id, rows[i].type, NoText, rows[i].content)]

\* "\n".join(lines).strip() of _memory_context: the joined text starts with
\* its heading and ends with the content of its last line, which so loses
\* its trailing whitespace
StripJoined(lines) ==
    IF Len(lines) = 0 THEN lines
    ELSE [lines EXCEPT ![Len(lines)] =
              Line(lines[Len(lines)].id, lines[Len(lines)].tag, lines[Len(lines)].name,
                   RStrip(lines[Len(lines)].text))]

\* the pinned rows _memory_context lists under "Pinned:"
PinnedRows == SelectSeq(ai_list_memories(TRUE, PinnedLimit), LAMBDA m : m.pinned = 1)

\* the rows _memory_context searches for: none for a blank user text
RelevantFound(user_text) ==
    IF Strip(user_text) # <<>> THEN ai_search_memories(user_text, RelevantLimit) ELSE <<>>

\* the rows _memory_context lists under "Relevant:" (pinned ids skipped)
RelevantRows(user_text) ==
    LET pinned_ids == {m.id : m \in Range(PinnedRows)}
    IN  SelectSeq(RelevantFound(user_text), LAMBDA m : m.id \notin pinned_ids)

\* _memory_context(user_text): "" (no sections) when both lists are empty
MemoryContext(user_text) ==
    LET pinned_lines == MemLines(PinnedRows)
        rel_lines == MemLines(RelevantRows(user_text))
    IN  (IF Len(pinned_lines) > 0
         THEN <<[title |-> "Pinned",
                 lines |-> IF Len(rel_lines) > 0 THEN pinned_lines
                           ELSE StripJoined(pinned_lines)]>>
         ELSE <<>>)
        \o
        (IF Len(rel_lines) > 0
         THEN <<[title |-> "Relevant", lines |-> StripJoined(rel_lines)]>> ELSE <<>>)

\* what _app_context shows: jobs[:10], rem_lines[:12], files[:10], and the
\* days range(0, 7) it reads reminders of
JobsShown == 10
RemindersShown == 12
FilesShown == 10
ReminderDays == 7

\* reminders of today and the next 6 days, day by day
RECURSIVE UpcomingReminders(_, _)
UpcomingReminders(d, n) ==
    IF n = 0 THEN <<>>
    ELSE list_reminders_for_date(d) \o UpcomingReminders(d + 1, n - 1)

\* the line "<title>: none" of _app_context
NoneLine == Line(0, "none", NoText, NoText)

\* a section of _app_context: its item lines, or the "none" line when the
\* list is empty
Section(title, lines) ==
    [title |-> title, lines |-> IF Len(lines) > 0 THEN lines ELSE <<NoneLine>>]

\* the item lines of the three sections
JobLines(js) ==
    [i \in 1..Len(js) |-> Line(js[i].id, js[i].status, js[i].company, js[i].role)]
ReminderLines(rs) ==
    [i \in 1..Len(rs) |-> Line(rs[i].date, rs[i].category, NoText, rs[i].title)]
FileLines(fs) ==
    [i \in 1..Len(fs) |-> Line(fs[i].id, fs[i].category, NoText, fs[i].original_name)]

\* _app_context leaving out a section that has no item
AppContextOmitting(down) ==
    LET js == IF "jobs" \in down THEN <<>> ELSE Limit(get_all_jobs, JobsShown)
        rs == IF "reminders" \in down THEN <<>> ELSE UpcomingReminders(today, ReminderDays)
        fs == IF "files" \in down THEN <<>> ELSE Limit(list_files, FilesShown)
    IN  (IF Len(js) > 0 THEN <<Section("Recent job applications", JobLines(js))>> ELSE <<>>)
        \o (IF Len(rs) > 0
            THEN <<Section("Upcoming reminders (7 days)", Limit(ReminderLines(rs), RemindersShown))>>
            ELSE <<>>)
        \o (IF Len(fs) > 0 THEN <<Section("Recent File Vault items", FileLines(fs))>> ELSE <<>>)

\* _app_context(): the three sections; a section whose read fails (its table
\* is in `down`) is rendered from the empty list. The joined text ends with
\* "none" or with the date_added of the last file, which the lines do not
\* carry, so its final strip() changes no line
AppContext(down) ==
    LET js == IF "jobs" \in down THEN <<>> ELSE Limit(get_all_jobs, JobsShown)
        rs == IF "reminders" \in down THEN <<>> ELSE UpcomingReminders(today, ReminderDays)
        fs == IF "files" \in down THEN <<>> ELSE Limit(list_files, FilesShown)
    IN  << Section("Recent job applications", JobLines(js)),
           Section("Upcoming reminders (7 days)", Limit(ReminderLines(rs), RemindersShown)),
           Section("Recent File Vault items", FileLines(fs)) >>

\* _build_messages, step 4, over the ai_messages table `rows`: the stored rows
\* of the conversation, roles other than user and assistant skipped
HistoryOf(rows, conv) ==
    IF conv = 0 THEN <<>>
    ELSE LET got == SelectSeq(GetMessages(rows, conv, HistoryLimit),
                              LAMBDA r : r.role \in {"user", "assistant"})
         IN  [i \in 1..Len(got) |-> Entry(got[i].role, "message", got[i].content, NoSections)]

\* the history section of the current conversation
HistoryEntries(conv) == HistoryOf(messages, conv)

\* _build_messages appending the history before the context entries
BuildMessagesHistoryFirst(user_text, down, rows, conv, atts) ==
    HistoryOf(rows, conv)
    \o <<Entry("system", "app", NoText, AppContext(down))>>
    \o (IF MemoryContext(user_text) # NoSections
        THEN <<Entry("system", "memory", NoText, MemoryContext(user_text))>> ELSE <<>>)
    \o (IF AttachmentsContext(atts) # NoSections
        THEN <<Entry("system", "attachments", NoText, AttachmentsContext(atts))>> ELSE <<>>)
    \o <<Entry("user", "message", user_text, NoSections)>>

\* _build_messages(user_text) with ai_messages holding `rows`, _conversation_id
\* being conv and _attachments being atts
BuildMessagesOn(user_text, down, rows, conv, atts) ==
    LET app_ctx == AppContext(down)
        mem_ctx == MemoryContext(user_text)
        att_ctx == AttachmentsContext(atts)
    IN  (IF app_ctx # NoSections THEN <<Entry("system", "app", NoText, app_ctx)>> ELSE <<>>)
        \o (IF mem_ctx # NoSections THEN <<Entry("system", "memory", NoText, mem_ctx)>> ELSE <<>>)
        \o (IF att_ctx # NoSections THEN <<Entry("system", "attachments", NoText, att_ctx)>> ELSE <<>>)
        \o HistoryOf(rows, conv)
        \o <<Entry("user", "message", user_text, NoSections)>>

\* _build_messages(user_text)
BuildMessages(user_text, down) ==
    BuildMessagesOn(user_text, down, messages, conversation_id, attachments)

-----------------------------------------------------------------------------
(* Attachment extraction: services/file_extract.py.  A file on disk is     *)
(* [name, suffix, exists, readable, text]: `readable` is whether reading   *)
(* and parsing it succeeds (the parser library is installed and accepts    *)
(* the file), `text` what the parser returns.                              *)

\* "\n\n[...truncated...]"
TruncationMarker ==
    <<"\n","\n","[",".",".",".","t","r","u","n","c","a","t","e","d",".",".",".","]">>

\* _clip(text, max_chars)
Clip(text, max_chars) ==
    LET t == Strip(text)
    IN  IF Len(t) <= max_chars THEN t ELSE SubSeq(t, 1, max_chars) \o TruncationMarker

\* Path.read_text(): the file is read in text mode, which hands out "\r\n"
\* and a lone "\r" as "\n"
RECURSIVE UniversalNewlines(_)
UniversalNewlines(s) ==
    IF Len(s) = 0 THEN s
    ELSE IF s[1] = "\r"
         THEN <<"\n">> \o UniversalNewlines(IF Len(s) >= 2 /\ s[2] = "\n"
                                            THEN SubSeq(s, 3, Len(s)) ELSE Tail(s))
    ELSE <<s[1]>> \o UniversalNewlines(Tail(s))

\* "\n".join(parts)
RECURSIVE JoinLines(_)
JoinLines(parts) ==
    IF Len(parts) = 0 THEN <<>>
    ELSE IF Len(parts) = 1 THEN parts[1]
    ELSE parts[1] \o <<"\n">> \o JoinLines(Tail(parts))

\* the text read off a .docx: every paragraph stripped, the empty ones left
\* out, the rest joined by newlines
DocxText(paragraphs) ==
    JoinLines(SelectSeq([i \in 1..Len(paragraphs) |-> Strip(paragraphs[i])],
                        LAMBDA t : t # <<>>))

\* range(min(doc.page_count, 6))
PdfPages == 6

\* the text read off a .pdf: its first 6 pages joined by newlines
PdfText(pages) ==
    JoinLines(SubSeq(pages, 1, IF Len(pages) < PdfPages THEN Len(pages) ELSE PdfPages))

TEXT_EXTS == { <<".","t","x","t">>, <<".","m","d">>, <<".","c","s","v">>,
               <<".","l","o","g">>, <<".","r","t","f">> }

\* extract_text_from_file(path, max_chars): <<label, text>>. A file is
\* [name, suffix, stat, exists, readable, text, parts]: text is what a text
\* file holds, parts are the paragraphs python-docx or the pages PyMuPDF
\* finds in it, readable tells that the reader of its type is installed and
\* takes the file; stat is "error" when the
\* stat call of Path.exists() fails with an OSError that pathlib does not
\* take for "no such file" (a name that is too long, a directory that may not
\* be searched): p.exists() is outside every try block, so the call raises,
\* shown as the label "RAISED"
ExtractText(f, max_chars) ==
    LET ext == Lower(f.suffix)
    IN  IF f.stat = "error" THEN <<"RAISED", NoText>>
        ELSE IF ~f.exists THEN <<"MISSING", NoText>>
        ELSE IF ext \in TEXT_EXTS
             THEN IF f.readable THEN <<"TEXT", Clip(UniversalNewlines(f.text), max_chars)>>
                  ELSE <<"TEXT", NoText>>
        ELSE IF ext = <<".","d","o","c","x">>
             THEN IF f.readable THEN <<"DOCX", Clip(DocxText(f.parts), max_chars)>>
                  ELSE <<"DOCX", NoText>>
        ELSE IF ext = <<".","p","d","f">>
             THEN IF f.readable THEN <<"PDF", Clip(PdfText(f.parts), max_chars)>>
                  ELSE <<"PDF", NoText>>
        ELSE <<"UNKNOWN", NoText>>

\* upload_file / attach_cv_from_vault: extract_text_from_file(path, max_chars=25_000)
UploadMaxChars == 25000

-----------------------------------------------------------------------------
(* Texts the model types into the chat box and gets back from the stream *)

\* texts typed and stored: "hi", "cv", "hi" with whitespace around it, a
\* blank text, "Cv", a space, a tab
Txt ==
    [ hi        |-> <<"h","i">>,
      cv        |-> <<"c","v">>,
      hi_padded |-> <<" ","h","i","\n">>,
      blank     |-> <<" ","\t">>,
      Cv        |-> <<"C","v">>,
      sp        |-> <<" ">>,
      tab       |-> <<"\t">> ]

\* the slash commands of _handle_command, and /PIN as a user may type it
Cmd ==
    [ new      |-> <<"/","n","e","w">>,
      memories |-> <<"/","m","e","m","o","r","i","e","s">>,
      remember |-> <<"/","r","e","m","e","m","b","e","r">>,
      pin      |-> <<"/","p","i","n">>,
      PIN      |-> <<"/","P","I","N">>,
      unpin    |-> <<"/","u","n","p","i","n">>,
      forget   |-> <<"/","f","o","r","g","e","t">>,
      help     |-> <<"/","h","e","l","p">> ]

\* what a user may submit from the text box
Inputs ==
    { Txt.hi, Txt.cv, Txt.hi_padded, Txt.blank,
      Cmd.new, Cmd.memories, Cmd.help,
      Cmd.remember, Cmd.remember \o Txt.sp \o Txt.Cv,
      Cmd.pin, Cmd.PIN \o Txt.tab \o <<"1">>, Cmd.pin \o Txt.sp \o <<"x">>,
      Cmd.unpin, Cmd.unpin \o Txt.sp \o <<"1">>, Cmd.unpin \o Txt.sp \o <<"1","_">>,
      Cmd.forget, Cmd.forget \o Txt.sp \o <<"1">>, Cmd.forget \o Txt.sp \o <<"a","1">> }

\* the single character U+2026 that stands for an empty answer
Ellipsis == <<"...">>

\* str.replace(old, "") with a non-empty old
RECURSIVE Remove(_, _)
Remove(s, old) ==
    IF Len(s) < Len(old) THEN s
    ELSE IF SubSeq(s, 1, Len(old)) = old THEN Remove(SubSeq(s, Len(old) + 1, Len(s)), old)
    ELSE <<s[1]>> \o Remove(Tail(s), old)

\* the backquote character
Backquote == "BQ"

\* _clean_ai_text(s)
CleanAiText(s) ==
    Remove(Remove(Remove(Remove(s, <<"*","*">>), <<"_","_">>), <<"*">>), <<Backquote>>)

\* how a stream can end: the done line arrived, the response ended without
\* it, or chat_stream raised
StreamOutcomes ==
    { [type |-> "done",  text |-> <<"o","k">>, complete |-> TRUE],
      [type |-> "done",  text |-> <<"*">>,     complete |-> FALSE],
      [type |-> "error", text |-> NoText,      complete |-> FALSE] }

\* files a user may pick in the upload dialog
UploadFiles ==
    { [name |-> <<"j","d">>, suffix |-> <<".","T","X","T">>, stat |-> "ok", exists |-> TRUE,
       readable |-> TRUE, text |-> <<" ","j","d","\n">>, parts |-> <<>>],
      [name |-> <<"c","v">>, suffix |-> <<".","p","d","f">>, stat |-> "ok", exists |-> TRUE,
       readable |-> FALSE, text |-> NoText, parts |-> <<>>] }

-----------------------------------------------------------------------------
(* Slash commands: AIBuddyPage._handle_command *)

\* t.split(maxsplit=2) of the stripped text
CommandParts(text) == Split(Strip(text), 2)

\* t.startswith("/")
IsCommand(text) == StartsWith(Strip(text), <<"/">>)

\* the branch of _handle_command that takes the text
CommandKind(text) ==
    IF ~IsCommand(text) THEN "not-a-command"
    ELSE LET cmd == Lower(CommandParts(text)[1])
         IN  IF cmd \in {Cmd.new, <<"/","r","e","s","e","t">>} THEN "new-session"
             ELSE IF cmd \in {Cmd.memories, <<"/","m","e","m","o","r","y">>} THEN "list-memories"
             ELSE IF cmd = Cmd.remember THEN "remember"
             ELSE IF cmd = Cmd.pin THEN "pin"
             ELSE IF cmd = Cmd.unpin THEN "unpin"
             ELSE IF cmd \in {Cmd.forget, <<"/","d","e","l","e","t","e","_","m","e","m","o","r","y">>}
                  THEN "forget"
             ELSE "unrecognized-command"

\* len(parts) >= 2
HasArgument(text) == Len(CommandParts(text)) >= 2

\* /pin, /unpin, /forget: int(parts[1]) does not raise
ArgumentIsInt(text) == HasArgument(text) /\ IntOk(CommandParts(text)[2])

\* /remember: content = t[len("/remember"):].strip()
RememberContent(text) ==
    LET t == Strip(text) IN Strip(SubSeq(t, Len(Cmd.remember) + 1, Len(t)))

\* the text asks about a CV: "cv" in text.lower() or "resume" in text.lower()
AsksAboutCv(text) ==
    Contains(Lower(text), <<"c","v">>) \/ Contains(Lower(text), <<"r","e","s","u","m","e">>)

\* what send() and _handle_command read off a text: its stripped form, its
\* branch, the argument of /pin, /unpin, /forget and /remember, and whether
\* it asks about a CV
ParseCommand(text) ==
    [ raw      |-> text,
      text     |-> Strip(text),
      kind     |-> CommandKind(text),
      hasArg   |-> HasArgument(text),
      argIsInt |-> ArgumentIsInt(text),
      argVal   |-> IF ArgumentIsInt(text) THEN IntVal(CommandParts(text)[2]) ELSE 0,
      content  |-> RememberContent(text),
      asksCv   |-> AsksAboutCv(Strip(text)) ]

\* the texts the model submits, each with what _handle_command reads off it
ParsedInputs == {ParseCommand(raw) : raw \in Inputs}

\* the texts the model submits by the Send button
ButtonInputs ==
    {ParseCommand(raw) : raw \in {Txt.hi, Cmd.new, Cmd.remember \o Txt.sp \o Txt.Cv, Cmd.pin \o Txt.sp \o <<"1">>}}

\* ai_memories after _handle_command on a text parsed as p; dbOk: the store
\* operation of the command succeeds
CommandMemories(p, dbOk) ==
    IF p.kind = "remember" /\ p.hasArg /\ dbOk
    THEN AddMemory(memories, "fact", p.content, RememberImportance, 0)
    ELSE IF p.kind = "pin" /\ p.argIsInt /\ dbOk
    THEN SetMemoryPinned(memories, p.argVal, 1)
    ELSE IF p.kind = "unpin" /\ p.argIsInt /\ dbOk
    THEN SetMemoryPinned(memories, p.argVal, 0)
    ELSE IF p.kind = "forget" /\ p.argIsInt /\ dbOk
    THEN DeleteMemory(memories, p.argVal)
    ELSE memories

\* _handle_command with int(parts[1]) outside the try blocks: a non-integer
\* argument of /pin, /unpin, /forget leaves the handler as a ValueError
CommandRaisesUncaught(p, dbOk) ==
    \/ /\ ~dbOk
       /\ \/ p.kind = "new-session" /\ worker = "idle"
          \/ p.kind = "list-memories"
          \/ p.kind = "remember" /\ p.hasArg
    \/ p.kind \in {"pin", "unpin", "forget"} /\ p.hasArg /\ ~p.argIsInt

\* an exception leaves _handle_command: a failing store operation outside a
\* try block (new_chat, /memories, /remember)
CommandRaises(p, dbOk) ==
    /\ ~dbOk
    /\ \/ p.kind = "new-session" /\ worker = "idle"
       \/ p.kind = "list-memories"
       \/ p.kind = "remember" /\ p.hasArg

\* the bubble _handle_command answers with ("no reply": none, or the command
\* was left by an exception); besides these, reply holds "Ollama error" after
\* _on_error has put its warning into the pending assistant bubble
CommandReply(p, dbOk) ==
    IF p.kind = "new-session"
    THEN IF worker = "idle" /\ dbOk THEN "New chat started" ELSE "no reply"
    ELSE IF p.kind = "list-memories"
    THEN IF ~dbOk THEN "no reply"
         ELSE IF Len(ai_list_memories(TRUE, PinnedLimit)) = 0 THEN "No memories saved yet"
         ELSE "Saved memories"
    ELSE IF p.kind = "remember"
    THEN IF ~p.hasArg THEN "Usage: /remember"
         ELSE IF dbOk THEN "Saved memory" ELSE "no reply"
    ELSE IF p.kind = "pin"
    THEN IF ~p.hasArg THEN "Usage: /pin"
         ELSE IF p.argIsInt /\ dbOk THEN "Pinned memory" ELSE "Could not pin"
    ELSE IF p.kind = "unpin"
    THEN IF ~p.hasArg THEN "Usage: /unpin"
         ELSE IF p.argIsInt /\ dbOk THEN "Unpinned memory" ELSE "Could not unpin"
    ELSE IF p.kind = "forget"
    THEN IF ~p.hasArg THEN "Usage: /forget"
         ELSE IF p.argIsInt /\ dbOk THEN "Deleted memory" ELSE "Could not delete"
    ELSE IF p.kind = "unrecognized-command" THEN "Unknown command"
    ELSE "no reply"

-----------------------------------------------------------------------------
(* The tables of the other pages (tracker, calendar, file vault) and the   *)
(* clock: what the chat page only reads.                                   *)

\* the tables after earlier use of the other pages
UsedJobs ==
    << [id |-> 1, company |-> <<"A">>, role |-> <<"d","e","v">>, status |-> "To Apply", date |-> 0],
       [id |-> 2, company |-> <<"B">>, role |-> <<"q","a">>, status |-> "Offer", date |-> 1] >>

UsedReminders ==
    << [id |-> 1, title |-> <<"c","a","l","l">>, date |-> 1, time |-> 9, category |-> "Interview"],
       [id |-> 2, title |-> <<"f","a","i","r">>, date |-> 7, time |-> 8, category |-> "Other"] >>

UsedFiles ==
    << [id |-> 1, filename |-> <<"1",".","d","o","c","x">>,
        original_name |-> <<"m","e",".","d","o","c","x">>,
        category |-> <<"C","V">>, date |-> 0] >>

\* table jobs with one row more than is shown
ManyJobs ==
    [i \in 1..(JobsShown + 1) |->
        [id |-> i, company |-> <<"A">>, role |-> <<"d","e","v">>, status |-> "To Apply",
         date |-> i]]

\* table reminders: on today and each of the next 7 days, more in the
\* window of 7 days than are shown
ManyReminders ==
    [i \in 1..(RemindersShown + 2) |->
        [id |-> i, title |-> <<"r">>, date |-> i % (ReminderDays + 1), time |-> i,
         category |-> "Other"]]

\* table files with one row more than is shown
ManyFiles ==
    [i \in 1..(FilesShown + 1) |->
        [id |-> i, filename |-> <<"f">>, original_name |-> <<"f">>,
         category |-> <<"C","V">>, date |-> i]]

\* the tables a session starts over: a new store, a used one, a full one
StartStores ==
    { << <<>>, <<>>, <<>> >>,
      <<UsedJobs, UsedReminders, UsedFiles>>,
      <<ManyJobs, ManyReminders, ManyFiles>> }

\* what has changed under the session since it started: a write of another
\* page, midnights
Writes == (IF <<jobs, reminders, files>> \in StartStores THEN 0 ELSE 1) + today

\* the id SQLite gives the next row of a table
NextRowId(rows) == NextId({r.id : r \in Range(rows)})

-----------------------------------------------------------------------------
(* The chat session: AIBuddyPage *)

\* self._worker and self._worker.isRunning()
WorkerRunning == worker \in {"streaming", "emitted"}

\* what the session holds: the stored rows and the attachments, one row kept
\* for every answer that may still be stored (that of a stream being read,
\* that of a queued done signal), the writes seen, and the bubble on display
\* when it stands for no stored row (a hint, a list, a warning)
Load ==
    Len(conversations) + Len(messages) + Len(memories) + Len(attachments)
    + Len(SelectSeq(signal, LAMBDA g : g.type = "done"))
    + (IF worker = "streaming" THEN 1 ELSE 0)
    + Writes
    + (IF reply \in {"no reply", "New chat started", "Saved memory"} THEN 0 ELSE 1)

\* ai_create_conversation handing out the id of the latest conversation again
ReusedConversationId ==
    IF Len(conversations) = 0 THEN 1 ELSE conversations[Len(conversations)]

\* the store after ai_create_conversation("AI Buddy")
NewConversationId == NextId(Range(conversations))

\* _vault_find_best_cv(): the row found, or <<>> for None
VaultFindBestCv ==
    LET rows == list_files
        cats == { <<"c","v">>, <<"c","v","/","r","e","s","u","m","e">>,
                  <<"r","e","s","u","m","e">> }
        cvs == SelectSeq(rows, LAMBDA r : Lower(Strip(r.category)) \in cats)
        named == SelectSeq(rows, LAMBDA r :
                     \/ Contains(Lower(r.original_name), <<"c","v">>)
                     \/ Contains(Lower(r.original_name), <<"r","e","s","u","m","e">>)
                     \/ Contains(Lower(r.original_name), <<"r","é","s","u","m","é">>))
    IN  IF Len(rows) = 0 THEN <<>>
        ELSE IF Len(cvs) > 0 THEN <<OrderBy(cvs, "date_added DESC")[1]>>
        ELSE IF Len(named) > 0 THEN <<named[1]>>
        ELSE <<>>

\* self._attachments after attach_cv_from_vault(); vf: the stored file on
\* disk. When extract_text_from_file raises, the list is as it was and the
\* exception leaves attach_cv_from_vault and send() (see SendPlain)
AttachCvFromVault(vf) ==
    LET best == VaultFindBestCv
        got == ExtractText(vf, UploadMaxChars)
    IN  IF best = <<>> \/ got[1] = "RAISED" \/ Strip(got[2]) = <<>> THEN attachments
        ELSE Append(attachments,
                    [name |-> best[1].original_name, label |-> got[1], text |-> got[2]])

\* the vault's CV file on disk: readable (the paragraphs " cv " and ""), gone,
\* or at a path the stat call of Path.exists() fails on
VaultFileOk == [name |-> NoText, suffix |-> <<".","d","o","c","x">>, stat |-> "ok", exists |-> TRUE,
                readable |-> TRUE, text |-> NoText,
                parts |-> << <<" ","c","v"," ">>, <<>> >>]
VaultFileGone == [name |-> NoText, suffix |-> <<".","d","o","c","x">>, stat |-> "ok", exists |-> FALSE,
                  readable |-> FALSE, text |-> NoText, parts |-> <<>>]
VaultFileNoStat == [name |-> NoText, suffix |-> <<".","d","o","c","x">>, stat |-> "error",
                    exists |-> FALSE, readable |-> FALSE, text |-> NoText, parts |-> <<>>]

\* _handle_command on a text parsed as p reaches a store operation
CallsStore(p) ==
    \/ p.kind \in {"new-session", "list-memories"}
    \/ p.kind = "remember" /\ p.hasArg
    \/ p.kind \in {"pin", "unpin", "forget"} /\ p.argIsInt

\* how the surroundings may treat one send() of the parsed text p: fail is the
\* store operation that raises ("store": the one of a slash command), down the
\* tables _app_context cannot read, vf the vault's CV file.  Only what the
\* handler can meet in the current state is listed.
SendCases(p) ==
    LET Case(f, d, v) == [fail |-> f, down |-> d, vf |-> v]
        wantsCv == p.asksCv /\ Len(attachments) = 0
    IN  IF WorkerRunning \/ p.text = <<>> THEN {Case("none", {}, VaultFileOk)}
        ELSE IF p.kind # "not-a-command"
        THEN {Case("none", {}, VaultFileOk)}
             \cup (IF CallsStore(p) THEN {Case("store", {}, VaultFileOk)} ELSE {})
        ELSE {Case(f, {}, VaultFileOk) : f \in {"none", "add_message", "build"}}
             \cup (IF conversation_id = 0
                   THEN {Case("create_conversation", {}, VaultFileOk)} ELSE {})
             \cup (IF wantsCv
                   THEN {Case("list_files", {}, VaultFileOk), Case("none", {}, VaultFileGone)}
                   ELSE {})
             \cup (IF wantsCv /\ VaultFindBestCv # <<>>
                   THEN {Case("none", {}, VaultFileNoStat)} ELSE {})
             \cup (IF Len(jobs) > 0 THEN {Case("none", {"jobs"}, VaultFileOk)} ELSE {})
             \cup (IF Len(reminders) > 0 THEN {Case("none", {"reminders"}, VaultFileOk)} ELSE {})
             \cup (IF Len(files) > 0 THEN {Case("none", {"files"}, VaultFileOk)} ELSE {})

\* the store call of _init_chat that raises: ai_list_conversations,
\* ai_create_conversation, or ai_get_messages of _load_history
InitFails == {"none", "list_conversations", "create_conversation", "get_messages"}

\* _init_chat(), run once after construction; fail: the store call that
\* raises. When _load_history raises, the conversation is already selected
\* (and created, in a new store)
InitChat(fail) ==
    /\ pc = "constructed"
    /\ pc' = "ready"
    /\ \E stopped \in {\/ fail = "list_conversations"
                        \/ (fail = "create_conversation"
                            /\ Len(ai_list_conversations(1)) = 0)} :
           /\ IF stopped
              THEN UNCHANGED <<conversations, conversation_id>>
              ELSE LET convs == ai_list_conversations(1)
                   IN  IF Len(convs) > 0
                       THEN conversation_id' = convs[1].id /\ UNCHANGED conversations
                       ELSE /\ conversation_id' = NewConversationId
                            /\ conversations' = Append(conversations, NewConversationId)
           /\ raised' = (stopped \/ fail = "get_messages")
    /\ reply' = "no reply"
    /\ UNCHANGED <<picked, messages, memories, attachments, envVars, runVars>>
    /\ Load' <= MaxRows

\* new_chat(): the New Chat button
NewChat(dbOk) ==
    /\ pc = "ready"
    /\ IF WorkerRunning \/ ~dbOk
       THEN UNCHANGED <<conversations, conversation_id>>
       ELSE /\ conversation_id' = NewConversationId
            /\ conversations' = Append(conversations, NewConversationId)
    /\ raised' = (~WorkerRunning /\ ~dbOk)
    /\ reply' = IF WorkerRunning \/ ~dbOk THEN "no reply" ELSE "New chat started"
    /\ UNCHANGED <<pc, picked, messages, memories, attachments, envVars, runVars>>
    /\ Load' <= MaxRows

\* send() on a slash command: _handle_command(text), then the box is cleared
SendCommand(p, dbOk) ==
    /\ UNCHANGED <<pc, picked, messages, attachments, envVars, runVars>>
    /\ memories' = CommandMemories(p, dbOk)
    /\ IF p.kind = "new-session" /\ dbOk
       THEN /\ conversation_id' = NewConversationId
            /\ conversations' = Append(conversations, NewConversationId)
       ELSE UNCHANGED <<conversations, conversation_id>>
    /\ raised' = CommandRaises(p, dbOk)
    /\ reply' = CommandReply(p, dbOk)

\* send() with _build_messages catching the store error of its reads
StopOfBuildCaught(asksCv, fail) ==
    IF asksCv /\ Len(attachments) = 0 /\ fail = "list_files" THEN "list_files"
    ELSE IF conversation_id = 0 /\ fail = "create_conversation" THEN "create_conversation"
    ELSE IF fail = "add_message" THEN "add_message"
    ELSE "none"

\* send() on a plain text stops where a store operation raises: before the
\* vault is read, before the conversation is created, before the user message
\* is stored, or inside _build_messages; "none": the worker is started
StopOf(asksCv, fail) ==
    IF asksCv /\ Len(attachments) = 0 /\ fail = "list_files" THEN "list_files"
    ELSE IF conversation_id = 0 /\ fail = "create_conversation" THEN "create_conversation"
    ELSE IF fail = "add_message" THEN "add_message"
    ELSE IF fail = "build" THEN "build"
    ELSE "none"

\* send() on a plain text; fail: the store operation that raises, down: the
\* tables _app_context cannot read, vf: the vault's CV file on disk. The stop
\* "extract_text": attach_cv_from_vault found a CV row and
\* extract_text_from_file raised on its path, which leaves send() before the
\* conversation is created
SendPlain(p, fail, down, vf) ==
    \E stop \in {IF /\ p.asksCv /\ Len(attachments) = 0 /\ fail # "list_files"
                     /\ VaultFindBestCv # <<>> /\ vf.stat = "error"
                  THEN "extract_text" ELSE StopOf(p.asksCv, fail)} :
        /\ reply' = "no reply"
        /\ worker' = IF stop = "none" THEN "streaming" ELSE worker
        /\ raised' = (stop # "none")
        /\ btn_send' = IF stop \in {"build", "none"} THEN FALSE ELSE btn_send
        /\ btn_upload' = IF stop \in {"build", "none"} THEN FALSE ELSE btn_upload
        /\ UNCHANGED <<pc, picked, memories, envVars, signal>>
        /\ \E conv \in {IF conversation_id = 0
                             /\ stop \notin {"list_files", "extract_text",
                                              "create_conversation"}
                          THEN NewConversationId ELSE conversation_id} :
           \E atts \in {IF /\ p.asksCv /\ Len(attachments) = 0
                             /\ stop \notin {"list_files", "extract_text"}
                          THEN AttachCvFromVault(vf) ELSE attachments} :
           \E rows \in {IF stop \in {"build", "none"}
                          THEN AddMessage(messages, conv, "user", p.text) ELSE messages} :
               /\ conversation_id' = conv
               /\ conversations' = IF conv # conversation_id
                                   THEN Append(conversations, conv) ELSE conversations
               /\ attachments' = atts
               /\ messages' = rows
               /\ workerMsgs' = IF stop = "none"
                                THEN BuildMessagesOn(p.text, down, rows, conv, atts)
                                ELSE workerMsgs

\* send() without the call of _handle_command: every text goes to the model
SendWithoutCommands(p, c) ==
    /\ pc = "ready"
    /\ IF WorkerRunning \/ p.text = <<>>
       THEN /\ raised' = FALSE
            /\ reply' = "no reply"
            /\ UNCHANGED <<pc, picked, conversations, messages, memories, conversation_id,
                           attachments, envVars, runVars>>
       ELSE SendPlain(p, IF c.fail = "store" THEN "none" ELSE c.fail, c.down, c.vf)
    /\ Load' <= MaxRows

\* send() without the isRunning() check at its top
SendWhileRunning(p, c) ==
    /\ pc = "ready"
    /\ IF p.text = <<>>
       THEN /\ raised' = FALSE
            /\ reply' = "no reply"
            /\ UNCHANGED <<pc, picked, conversations, messages, memories, conversation_id,
                           attachments, envVars, runVars>>
       ELSE IF p.kind # "not-a-command"
       THEN SendCommand(p, c.fail = "none")
       ELSE SendPlain(p, c.fail, c.down, c.vf)
    /\ Load' <= MaxRows

\* send() with the text box holding p.raw
send(p, c) ==
    /\ pc = "ready"
    /\ IF WorkerRunning \/ p.text = <<>>
       THEN /\ raised' = FALSE
            /\ reply' = "no reply"
            /\ UNCHANGED <<pc, picked, conversations, messages, memories, conversation_id,
                           attachments, envVars, runVars>>
       ELSE IF p.kind # "not-a-command"
       THEN SendCommand(p, c.fail = "none")
       ELSE SendPlain(p, c.fail, c.down, c.vf)
    /\ Load' <= MaxRows

\* the Send button: clicked.connect(self.send); a disabled button gives no click
SendButton(p, c) == btn_send /\ send(p, c)

\* eventFilter: Return or Enter without Shift in the text box calls send()
SendEnter(p, c) == send(p, c)

\* upload_file(), the Upload button: with no worker running the file dialog
\* opens.  The dialog runs an event loop of its own: the page takes no click
\* and no key until it returns, a queued done or error signal is handed to
\* its callback
UploadFile ==
    /\ pc = "ready"
    /\ btn_upload
    /\ pc' = IF WorkerRunning THEN "ready" ELSE "file_dialog"
    /\ raised' = FALSE
    /\ reply' = "no reply"
    /\ UNCHANGED <<picked, conversations, messages, memories, conversation_id, attachments,
                   envVars, runVars>>

\* the file dialog is cancelled: if not path: return
UploadCancel ==
    /\ pc = "file_dialog"
    /\ pc' = "ready"
    /\ raised' = FALSE
    /\ reply' = "no reply"
    /\ UNCHANGED <<picked, conversations, messages, memories, conversation_id, attachments,
                   envVars, runVars>>

\* the file dialog returns the path of f: the text is extracted; with a text
\* the attachment is appended, without one the message box opens first
UploadPick(f) ==
    /\ pc = "file_dialog"
    /\ \E got \in {ExtractText(f, UploadMaxChars)} :
       \E att \in {[name |-> f.name, label |-> got[1], text |-> got[2]]} :
           /\ pc' = IF got[1] # "RAISED" /\ got[2] = <<>> THEN "message_box" ELSE "ready"
           /\ picked' = IF got[1] # "RAISED" /\ got[2] = <<>> THEN <<att>> ELSE picked
           /\ attachments' = IF got[1] # "RAISED" /\ got[2] # <<>>
                              THEN Append(attachments, att) ELSE attachments
           /\ raised' = (got[1] = "RAISED")
    /\ reply' = "no reply"
    /\ UNCHANGED <<conversations, messages, memories, conversation_id, envVars, runVars>>
    /\ Load' <= MaxRows

\* the message box "Could not read file" is closed: the attachment is
\* appended with its empty text
UploadClose ==
    /\ pc = "message_box"
    /\ pc' = "ready"
    /\ attachments' = Append(attachments, picked[1])
    /\ picked' = <<>>
    /\ raised' = FALSE
    /\ reply' = "no reply"
    /\ UNCHANGED <<conversations, messages, memories, conversation_id, envVars, runVars>>
    /\ Load' <= MaxRows

\* clear_attachments()
ClearAttachments ==
    /\ pc = "ready"
    /\ attachments' = <<>>
    /\ raised' = FALSE
    /\ reply' = "no reply"
    /\ UNCHANGED <<pc, picked, conversations, messages, memories, conversation_id, envVars, runVars>>

\* remove_attachment popping the last attachment whatever the index
RemoveLast(atts, index) ==
    IF 0 <= index /\ index < Len(atts) THEN SubSeq(atts, 1, Len(atts) - 1) ELSE atts

\* self._attachments after remove_attachment(index), index counted from 0
RemoveAt(atts, index) ==
    IF 0 <= index /\ index < Len(atts)
    THEN SubSeq(atts, 1, index) \o SubSeq(atts, index + 2, Len(atts))
    ELSE atts

\* remove_attachment(index)
RemoveAttachment(index) ==
    /\ pc = "ready"
    /\ attachments' = RemoveAt(attachments, index)
    /\ raised' = FALSE
    /\ reply' = "no reply"
    /\ UNCHANGED <<pc, picked, conversations, messages, memories, conversation_id, envVars, runVars>>

\* the id of the user message stored last (0: none): while a worker runs it
\* is the message of that worker's turn, as send() stores it before it starts
\* the worker and stores none while the worker runs
LastUserId(rows) ==
    LET users == SelectSeq(rows, LAMBDA r : r.role = "user")
    IN  IF Len(users) = 0 THEN 0 ELSE users[Len(users)].id

\* OllamaStreamWorker.run(): the stream ends and done or error is emitted,
\* queued for the GUI thread; turn: the user message the worker answers
WorkerEmit(outcome) ==
    /\ worker = "streaming"
    /\ worker' = "emitted"
    /\ signal' = Append(signal, [type |-> outcome.type, text |-> outcome.text,
                                  complete |-> outcome.complete,
                                  turn |-> LastUserId(messages)])
    /\ UNCHANGED <<pc, picked, conversations, messages, memories, conversation_id, attachments,
                   envVars, workerMsgs, btn_send, btn_upload, raised, reply>>

\* run() returns: isRunning() is false from here on
WorkerExit ==
    /\ worker = "emitted"
    /\ worker' = "idle"
    /\ workerMsgs' = <<>>
    /\ UNCHANGED <<pc, picked, conversations, messages, memories, conversation_id, attachments,
                   envVars, signal, btn_send, btn_upload, raised, reply>>

\* the text _on_done stores: _clean_ai_text(full_text.strip()) or the ellipsis
FinalText(full_text) ==
    LET c == CleanAiText(Strip(full_text)) IN IF c = <<>> THEN Ellipsis ELSE c

\* _on_done(full_text): the queued done signal reaches the GUI thread
OnDone(dbOk) ==
    /\ Len(signal) > 0 /\ Head(signal).type = "done"
    /\ signal' = Tail(signal)
    /\ btn_send' = TRUE
    /\ btn_upload' = TRUE
    /\ messages' = IF conversation_id # 0 /\ dbOk
                   THEN AddMessage(messages, conversation_id, "assistant",
                                   FinalText(Head(signal).text))
                   ELSE messages
    /\ raised' = (conversation_id # 0 /\ ~dbOk)
    /\ reply' = "no reply"
    /\ UNCHANGED <<pc, picked, conversations, memories, conversation_id, attachments, envVars,
                   worker, workerMsgs>>

\* _on_error without the two setEnabled(True) calls
OnErrorLeavesDisabled ==
    /\ Len(signal) > 0 /\ Head(signal).type = "error"
    /\ signal' = Tail(signal)
    /\ raised' = FALSE
    /\ reply' = "Ollama error"
    /\ UNCHANGED <<pc, picked, conversations, messages, memories, conversation_id, attachments,
                   envVars, worker, workerMsgs, btn_send, btn_upload>>

\* _on_error(msg): the queued error signal reaches the GUI thread
OnError ==
    /\ Len(signal) > 0 /\ Head(signal).type = "error"
    /\ signal' = Tail(signal)
    /\ btn_send' = TRUE
    /\ btn_upload' = TRUE
    /\ raised' = FALSE
    /\ reply' = "Ollama error"
    /\ UNCHANGED <<pc, picked, conversations, messages, memories, conversation_id, attachments,
                   envVars, worker, workerMsgs>>

-----------------------------------------------------------------------------
(* The other pages of the window writing their tables *)

\* CareerDB.add_job(company, role, status): the tracker's Add Job dialog
add_job(company, role, status) ==
    /\ pc = "ready"
    /\ Writes < MaxWrites
    /\ jobs' = Append(jobs, [id |-> NextRowId(jobs), company |-> company, role |-> role,
                             status |-> status, date |-> today])
    /\ UNCHANGED <<pc, picked, conversations, messages, memories, reminders, files, today,
                   conversation_id, attachments, runVars, raised, reply>>
    /\ Load' <= MaxRows

\* CareerDB.edit_job(job_id, company, role, status, notes): the dialog opened
\* on a job card
edit_job(job_id, company, role, status) ==
    /\ pc = "ready"
    /\ Writes < MaxWrites
    /\ jobs' = [i \in 1..Len(jobs) |->
                   IF jobs[i].id = job_id
                   THEN [jobs[i] EXCEPT !.company = company, !.role = role, !.status = status]
                   ELSE jobs[i]]
    /\ UNCHANGED <<pc, picked, conversations, messages, memories, reminders, files, today,
                   conversation_id, attachments, runVars, raised, reply>>
    /\ Load' <= MaxRows

\* CareerDB.update_job_status(job_id, new_status): a job card dropped on a
\* column
update_job_status(job_id, new_status) ==
    /\ pc = "ready"
    /\ Writes < MaxWrites
    /\ jobs' = [i \in 1..Len(jobs) |->
                   IF jobs[i].id = job_id THEN [jobs[i] EXCEPT !.status = new_status]
                   ELSE jobs[i]]
    /\ UNCHANGED <<pc, picked, conversations, messages, memories, reminders, files, today,
                   conversation_id, attachments, runVars, raised, reply>>
    /\ Load' <= MaxRows

\* CareerDB.delete_job(job_id)
delete_job(job_id) ==
    /\ pc = "ready"
    /\ Writes < MaxWrites
    /\ jobs' = SelectSeq(jobs, LAMBDA r : r.id # job_id)
    /\ UNCHANGED <<pc, picked, conversations, messages, memories, reminders, files, today,
                   conversation_id, attachments, runVars, raised, reply>>
    /\ Load' <= MaxRows

\* CareerDB.add_reminder(title, description, date, time, category): the
\* calendar's _add_event
add_reminder(title, date, time, category) ==
    /\ pc = "ready"
    /\ Writes < MaxWrites
    /\ reminders' = Append(reminders, [id |-> NextRowId(reminders), title |-> title,
                                       date |-> date, time |-> time, category |-> category])
    /\ UNCHANGED <<pc, picked, conversations, messages, memories, jobs, files, today,
                   conversation_id, attachments, runVars, raised, reply>>
    /\ Load' <= MaxRows

\* CareerDB.update_reminder(reminder_id, title, description, date, time, category)
update_reminder(reminder_id, title, date, time, category) ==
    /\ pc = "ready"
    /\ Writes < MaxWrites
    /\ reminders' = [i \in 1..Len(reminders) |->
                        IF reminders[i].id = reminder_id
                        THEN [reminders[i] EXCEPT !.title = title, !.date = date,
                                                  !.time = time, !.category = category]
                        ELSE reminders[i]]
    /\ UNCHANGED <<pc, picked, conversations, messages, memories, jobs, files, today,
                   conversation_id, attachments, runVars, raised, reply>>
    /\ Load' <= MaxRows

\* the calendar's _edit_event: its own UPDATE of title, description, time and
\* category, the date is kept
edit_event(reminder_id, title, time, category) ==
    /\ pc = "ready"
    /\ Writes < MaxWrites
    /\ reminders' = [i \in 1..Len(reminders) |->
                        IF reminders[i].id = reminder_id
                        THEN [reminders[i] EXCEPT !.title = title, !.time = time,
                                                  !.category = category]
                        ELSE reminders[i]]
    /\ UNCHANGED <<pc, picked, conversations, messages, memories, jobs, files, today,
                   conversation_id, attachments, runVars, raised, reply>>
    /\ Load' <= MaxRows

\* CareerDB.delete_reminder(reminder_id)
delete_reminder(reminder_id) ==
    /\ pc = "ready"
    /\ Writes < MaxWrites
    /\ reminders' = SelectSeq(reminders, LAMBDA r : r.id # reminder_id)
    /\ UNCHANGED <<pc, picked, conversations, messages, memories, jobs, files, today,
                   conversation_id, attachments, runVars, raised, reply>>
    /\ Load' <= MaxRows

\* CareerDB.add_file(filename, original_name, category): the vault's
\* import_file
add_file(filename, original_name, category) ==
    /\ pc = "ready"
    /\ Writes < MaxWrites
    /\ files' = Append(files, [id |-> NextRowId(files), filename |-> filename,
                               original_name |-> original_name, category |-> category,
                               date |-> today])
    /\ UNCHANGED <<pc, picked, conversations, messages, memories, jobs, reminders, today,
                   conversation_id, attachments, runVars, raised, reply>>
    /\ Load' <= MaxRows

\* CareerDB.delete_file(file_id): the vault's delete_selected
delete_file(file_id) ==
    /\ pc = "ready"
    /\ Writes < MaxWrites
    /\ files' = SelectSeq(files, LAMBDA r : r.id # file_id)
    /\ UNCHANGED <<pc, picked, conversations, messages, memories, jobs, reminders, today,
                   conversation_id, attachments, runVars, raised, reply>>
    /\ Load' <= MaxRows

\* midnight passes: datetime.now().date() is one day on
DayPasses ==
    /\ today < MaxDays
    /\ Writes < MaxWrites
    /\ today' = today + 1
    /\ UNCHANGED <<pc, picked, conversations, messages, memories, jobs, reminders, files,
                   conversation_id, attachments, runVars, raised, reply>>

-----------------------------------------------------------------------------
(* The state after construction: the page is built over a store that is    *)
(* either new or was filled by earlier use of the other pages.             *)

Init ==
    /\ pc = "constructed"
    /\ picked = <<>>
    /\ messages = <<>>
    /\ memories = <<>>
    /\ \/ conversations = <<>> /\ jobs = <<>> /\ reminders = <<>> /\ files = <<>>
       \/ conversations = <<1>> /\ jobs = UsedJobs /\ reminders = UsedReminders
          /\ files = UsedFiles
    /\ today = 0
    /\ conversation_id = 0
    /\ attachments = <<>>
    /\ worker = "idle"
    /\ workerMsgs = <<>>
    /\ signal = <<>>
    /\ btn_send = TRUE
    /\ btn_upload = TRUE
    /\ raised = FALSE
    /\ reply = "no reply"

Next ==
    \/ \E fail \in InitFails : InitChat(fail)
    \/ \E dbOk \in BOOLEAN : NewChat(dbOk)
    \/ \E p \in ButtonInputs : \E c \in SendCases(p) : SendButton(p, c)
    \/ \E p \in ParsedInputs : \E c \in SendCases(p) : SendEnter(p, c)
    \/ UploadFile
    \/ UploadCancel
    \/ \E f \in UploadFiles : UploadPick(f)
    \/ UploadClose
    \/ ClearAttachments
    \/ \E index \in 0..Len(attachments) : RemoveAttachment(index)
    \/ \E outcome \in StreamOutcomes : WorkerEmit(outcome)
    \/ WorkerExit
    \/ \E dbOk \in BOOLEAN : OnDone(dbOk)
    \/ OnError
    \/ add_job(<<"C">>, <<"p","m">>, "Applied")
    \/ edit_job(1, <<"A">>, <<"d","e","v">>, "Interview")
    \/ update_job_status(1, "Interview")
    \/ delete_job(1)
    \/ add_reminder(<<"d","e","m","o">>, today, 10, "Other")
    \/ update_reminder(1, <<"c","a","l","l">>, 1, 9, "Other")
    \/ edit_event(1, <<"c","a","l","l">>, 9, "Other")
    \/ delete_reminder(1)
    \/ add_file(<<"2",".","t","x","t">>, <<"j","d",".","t","x","t">>, <<"O","t","h","e","r">>)
    \/ delete_file(1)
    \/ DayPasses /\ Load' <= MaxRows

Spec == Init /\ [][Next]_vars

-----------------------------------------------------------------------------
(* The store called on its own (CareerDB), over tables earlier sessions    *)
(* left.  The page is constructed and not yet used.                        *)

sessionVars == <<pc, picked, conversation_id, attachments, worker, workerMsgs, signal,
                 btn_send, btn_upload, raised, reply>>

InitSession ==
    /\ pc = "constructed"
    /\ picked = <<>>
    /\ today = 0
    /\ conversation_id = 0
    /\ attachments = <<>>
    /\ worker = "idle"
    /\ workerMsgs = <<>>
    /\ signal = <<>>
    /\ btn_send = TRUE
    /\ btn_upload = TRUE
    /\ raised = FALSE
    /\ reply = "no reply"

\* ai_messages after earlier chats: conversation 1 with one row of
\* conversation 2 in between and one row of role system
StoredMessages ==
    [i \in 1..StoredCount |->
        [id |-> i,
         conv |-> IF i = 4 THEN 2 ELSE 1,
         role |-> IF i = 7 THEN "system" ELSE IF i % 2 = 1 THEN "user" ELSE "assistant",
         content |-> <<DigitChars[(i % 10) + 1]>>]]

\* what a caller may store as a message
NewMessages ==
    { [role |-> "user", content |-> Txt.hi],
      [role |-> "assistant", content |-> <<"o","k">>],
      [role |-> "system", content |-> Txt.hi] }

\* ai_add_message(conversation_id, role, content)
StoreAddMessage(conv, m) ==
    /\ Len(messages) < StoredCount + MaxInserts
    /\ messages' = AddMessage(messages, conv, m.role, m.content)
    /\ UNCHANGED <<conversations, memories, envVars, sessionVars>>

InitMessages ==
    /\ InitSession
    /\ conversations = <<1, 2>>
    /\ messages = StoredMessages
    /\ memories = <<>>
    /\ jobs = <<>> /\ reminders = <<>> /\ files = <<>>

NextMessages ==
    \E conv \in Range(conversations) : \E m \in NewMessages : StoreAddMessage(conv, m)

SpecMessages == InitMessages /\ [][NextMessages]_vars

\* what a caller may store as the content of a memory
MemoryContents == { Txt.Cv, <<"a","b","c","\n">> }

\* ai_memories after PinnedLimit + 1 memories were saved and pinned
ManyPinned ==
    [i \in 1..(PinnedLimit + 1) |->
        [id |-> i, type |-> "fact",
         content |-> IF i = 1 THEN Txt.Cv ELSE <<"a","b","c">>,
         importance |-> RememberImportance, pinned |-> 1]]

\* ai_add_memory(mem_type, content, importance, pinned)
StoreAddMemory(content, importance, pinned) ==
    /\ NextId({r.id : r \in Range(memories)}) <= MaxInserts
    /\ memories' = AddMemory(memories, "fact", content, importance, pinned)
    /\ UNCHANGED <<conversations, messages, envVars, sessionVars>>

\* ai_set_memory_pinned(memory_id, pinned)
StoreSetMemoryPinned(memory_id, pinned) ==
    /\ memories' = SetMemoryPinned(memories, memory_id, pinned)
    /\ UNCHANGED <<conversations, messages, envVars, sessionVars>>

\* ai_delete_memory(memory_id)
StoreDeleteMemory(memory_id) ==
    /\ memories' = DeleteMemory(memories, memory_id)
    /\ UNCHANGED <<conversations, messages, envVars, sessionVars>>

InitMemories ==
    /\ InitSession
    /\ conversations = <<>>
    /\ messages = <<>>
    /\ memories \in {<<>>, ManyPinned}
    /\ jobs = <<>> /\ reminders = <<>> /\ files = <<>>

NextMemories ==
    \/ \E content \in MemoryContents :
       \E importance \in {DefaultImportance, RememberImportance} :
       \E pinned \in {0, 1} : StoreAddMemory(content, importance, pinned)
    \/ \E memory_id \in 1..MaxInserts : \E pinned \in {0, 1} :
           StoreSetMemoryPinned(memory_id, pinned)
    \/ \E memory_id \in 1..MaxInserts : StoreDeleteMemory(memory_id)

SpecMemories == InitMemories /\ [][NextMemories]_vars

-----------------------------------------------------------------------------
(* The extractor called on its own (services/file_extract.py) with the     *)
(* budget MaxChars; what it returns is kept as upload_file keeps it.       *)

\* a text of n characters
TextOfLen(n) == [i \in 1..n |-> "x"]

\* what the files hold: texts up to two characters over the budget, and
\* texts with whitespace around them
ExtractTexts ==
    {TextOfLen(n) : n \in 0..(MaxChars + 2)}
    \cup {Txt.tab \o TextOfLen(n) \o <<"\r","\n">> : n \in {MaxChars - 1, MaxChars, MaxChars + 1}}

\* the paragraphs of the .docx files and the pages of the .pdf files: none,
\* one, some blank or with whitespace around them, more text than the
\* budget, and seven of which only the last holds text
ExtractParts ==
    { <<>>,
      << <<"x">> >>,
      << <<" ","x"," ">>, <<>>, <<"x">> >>,
      << <<"x">>, <<" "," ">>, <<"x","x"," ">> >>,
      << <<>>, <<>>, <<>>, <<>>, <<>>, <<>>, <<"x">> >> }

\* the paths extract_text_from_file is called with: files that are there
\* and can be read, that cannot be read, that are missing, and paths whose
\* stat call fails
ExtractFiles ==
    { [name |-> <<"f">>, suffix |-> sfx, stat |-> "ok", exists |-> st[1], readable |-> st[2],
       text |-> t, parts |-> <<>>] :
        sfx \in {<<".","t","x","t">>, <<".","p","n","g">>},
        st \in {<<TRUE, TRUE>>, <<TRUE, FALSE>>, <<FALSE, FALSE>>},
        t \in ExtractTexts }
    \cup
    { [name |-> <<"f">>, suffix |-> sfx, stat |-> "ok", exists |-> st[1], readable |-> st[2],
       text |-> NoText, parts |-> ps] :
        sfx \in {<<".","D","o","c","x">>, <<".","p","d","f">>},
        st \in {<<TRUE, TRUE>>, <<TRUE, FALSE>>, <<FALSE, FALSE>>},
        ps \in ExtractParts }
    \cup
    { [name |-> <<"f">>, suffix |-> sfx, stat |-> "error", exists |-> FALSE,
       readable |-> FALSE, text |-> NoText, parts |-> <<>>] :
        sfx \in {<<".","t","x","t">>, <<".","p","n","g">>} }

\* extract_text_from_file(path, MaxChars), the pair kept as an attachment;
\* nothing is kept when the call raises
ExtractFile(f) ==
    /\ Len(attachments) < MaxInserts
    /\ \E got \in {ExtractText(f, MaxChars)} :
           /\ attachments' = IF got[1] = "RAISED" THEN attachments
                             ELSE Append(attachments,
                                         [name |-> f.name, label |-> got[1], text |-> got[2]])
           /\ raised' = (got[1] = "RAISED")
    /\ UNCHANGED <<pc, picked, conversations, messages, memories, conversation_id, envVars,
                   runVars, reply>>

InitExtract ==
    /\ InitSession
    /\ conversations = <<>>
    /\ messages = <<>>
    /\ memories = <<>>
    /\ jobs = <<>> /\ reminders = <<>> /\ files = <<>>

NextExtract == \E f \in ExtractFiles : ExtractFile(f)

SpecExtract == InitExtract /\ [][NextExtract]_vars

-----------------------------------------------------------------------------
(* The context builder called on its own, over a store that holds more     *)
(* than every section shows and a session with attachments.                *)


\* table ai_memories: PinnedLimit + 1 pinned rows that hold "Cv", then
\* RelevantLimit + 1 rows that are not pinned and hold "abc"
ManyMemories ==
    [i \in 1..(PinnedLimit + RelevantLimit + 2) |->
        IF i <= PinnedLimit + 1
        THEN [id |-> i, type |-> "fact", content |-> Txt.Cv,
              importance |-> RememberImportance, pinned |-> 1]
        ELSE [id |-> i, type |-> "fact", content |-> <<"a","b","c">>,
              importance |-> DefaultImportance, pinned |-> 0]]

\* table ai_messages with one message of conversation 1 more than the
\* history replays, none of role system
ManyMessages ==
    [i \in 1..(HistoryLimit + 1) |->
        [id |-> i, conv |-> 1, role |-> IF i % 2 = 1 THEN "user" ELSE "assistant",
         content |-> <<DigitChars[(i % 10) + 1]>>]]

\* table ai_memories with one pinned row and one that is not
FewMemories ==
    << [id |-> 1, type |-> "fact", content |-> Txt.Cv,
        importance |-> RememberImportance, pinned |-> 1],
       [id |-> 2, type |-> "fact", content |-> <<"a","b","c">>,
        importance |-> DefaultImportance, pinned |-> 0] >>

\* the texts _build_messages is called with
ContextTexts == { Txt.hi, Txt.cv, <<"b">> }

\* the attachment upload_file() keeps of the file picked in the dialog
Attached(f) ==
    LET got == ExtractText(f, UploadMaxChars)
    IN  [name |-> f.name, label |-> got[1], text |-> got[2]]

\* _attachments after n uploads, the two files taking turns
Uploads(n, k) ==
    [i \in 1..n |->
        Attached(CHOOSE f \in UploadFiles :
                     f.readable = (i % 2 = k))]

\* the sessions the builder is called in: no attachment, as many as the
\* context shows, one more
ContextAttachments ==
    {<<>>} \cup {Uploads(n, k) : n \in {AttachTail, AttachTail + 1}, k \in {0, 1}}

\* the message tables the builder is called over
ContextMessages == { <<>>, StoredMessages, ManyMessages }

\* the builder storing the user message it is given
BuildStoring(user_text) ==
    /\ workerMsgs' = BuildMessages(user_text, {})
    /\ messages' = AddMessage(messages, conversation_id, "user", user_text)
    /\ UNCHANGED <<pc, picked, conversations, memories, conversation_id, attachments,
                   envVars, worker, signal, btn_send, btn_upload, raised, reply>>

\* messages = self._build_messages(text): the list replaces the one of the
\* call before
Build(user_text) ==
    /\ workerMsgs' = BuildMessages(user_text, {})
    /\ UNCHANGED <<pc, picked, conversations, messages, memories, conversation_id, attachments,
                   envVars, worker, signal, btn_send, btn_upload, raised, reply>>

\* a page that is ready, in conversation 1, no turn under way
InitReady ==
    /\ pc = "ready"
    /\ picked = <<>>
    /\ today = 0
    /\ conversations = <<1>>
    /\ conversation_id = 1
    /\ worker = "idle"
    /\ workerMsgs = <<>>
    /\ signal = <<>>
    /\ btn_send = TRUE
    /\ btn_upload = TRUE
    /\ raised = FALSE
    /\ reply = "no reply"

InitContext ==
    /\ InitReady
    /\ messages \in ContextMessages
    /\ memories = ManyMemories
    /\ jobs = ManyJobs /\ reminders = ManyReminders /\ files = ManyFiles
    /\ attachments \in ContextAttachments

\* the builder is called, today or on the next day
NextContext ==
    \/ \E user_text \in ContextTexts : Build(user_text)
    \/ DayPasses

SpecContext == InitContext /\ [][NextContext]_vars

-----------------------------------------------------------------------------
(* The context builder called on its own over a store of a few rows.       *)

\* table ai_messages after one turn of conversation 1 and a note of role
\* system
FewMessages ==
    << [id |-> 1, conv |-> 1, role |-> "user", content |-> Txt.hi],
       [id |-> 2, conv |-> 1, role |-> "assistant", content |-> <<"o","k">>],
       [id |-> 3, conv |-> 1, role |-> "system", content |-> Txt.hi] >>

InitBuild ==
    /\ InitReady
    /\ messages \in {<<>>, FewMessages}
    /\ memories \in {<<>>, FewMemories}
    /\ jobs = UsedJobs /\ reminders = UsedReminders /\ files = UsedFiles
    /\ attachments \in ContextAttachments

NextBuild ==
    \/ \E user_text \in ContextTexts : Build(user_text)
    \/ DayPasses

SpecBuild == InitBuild /\ [][NextBuild]_vars

-----------------------------------------------------------------------------
(* Properties *)

\* user texts _build_messages is applied to
BuildTexts == { Txt.hi, Txt.cv, Txt.blank, <<"%">> }

\* tables _app_context fails to read
Downs == { {}, {"jobs", "reminders", "files"} }

\* queries the memory search is applied to
Queries ==
    { Txt.cv, <<"\t","c","v","\n">>, <<"%">>, <<"_","v">>, <<"a","%","c">>,
      <<>>, Txt.blank, <<"b">>, <<"x">> }

\* limits the list and search operations are called with
Limits == { 0, 1, 2, RelevantLimit, PinnedLimit }

\* limits ai_get_messages is called with
MessageLimits == { 0, 1, 2, HistoryLimit, 30 }

\* the place of an entry kind in the fixed order
KindRank(kind) ==
    IF kind = "app" THEN 1
    ELSE IF kind = "memory" THEN 2
    ELSE IF kind = "attachments" THEN 3
    ELSE 4

\* some memory is pinned, or is found by the search the text is used for
PinnedOrMatching(user_text) ==
    \E m \in Range(memories) :
        \/ m.pinned = 1
        \/ Strip(user_text) # <<>> /\ LikeMatch(SearchPattern(user_text), m.content)

\* msgs is in the fixed order and ends with the user message
InFixedOrder(msgs, user_text) ==
    LET n == Len(msgs)
        Has(kind) == \E i \in 1..n : msgs[i].kind = kind
    IN  /\ n >= 2
        /\ msgs[1].kind = "app"
        /\ msgs[n] = Entry("user", "message", user_text, NoSections)
        /\ \A i \in 1..(n - 1) : KindRank(msgs[i].kind) <= KindRank(msgs[i + 1].kind)
        /\ \A kind \in {"app", "memory", "attachments"} :
               Cardinality({i \in 1..n : msgs[i].kind = kind}) <= 1
        /\ Has("memory") <=> PinnedOrMatching(user_text)
        /\ Has("attachments") <=> (Len(attachments) > 0)
        /\ \A i \in 1..n :
               IF msgs[i].kind = "message" THEN msgs[i].role \in {"user", "assistant"}
               ELSE msgs[i].role = "system"
        /\ \A i \in 1..n : \A j \in (i + 1)..n :
               msgs[i].role \in {"user", "assistant"} => msgs[j].role # "system"

\* C1: for every store state, attachment list and user text, _build_messages
\* returns the application snapshot (system), then the memory context (system)
\* exactly when a memory is pinned or matched by the search, then the
\* attachment context (system) exactly when there are attachments, then the
\* history (user and assistant entries only), then the user message with
\* content user_text; no system entry follows a user or assistant entry.
C1_BuildOrder ==
    \A user_text \in BuildTexts : \A down \in Downs :
        \A msgs \in {BuildMessages(user_text, down)} : InFixedOrder(msgs, user_text)

\* C1, reached: a store and an attachment list for which all five parts are
\* present in the list _build_messages returns
C1_AllFiveParts ==
    \E msgs \in {BuildMessages(Txt.cv, {})} :
        /\ Len(msgs) >= 5
        /\ msgs[2].kind = "memory"
        /\ msgs[3].kind = "attachments"
        /\ msgs[4].kind = "message"
        /\ msgs[4].role = "user"

\* the history section of a message list: what lies between the context
\* entries and the final user message
HistoryPart(msgs) ==
    SelectSeq(SubSeq(msgs, 1, Len(msgs) - 1), LAMBDA e : e.kind = "message")

\* C2: in every turn send() starts, the history section of the list handed
\* to the worker holds only what was stored before the turn, so the current
\* user message is in the list once, as its last entry.
C2_HistoryIsPrior ==
    [][ (worker # "streaming" /\ worker' = "streaming")
        => HistoryPart(workerMsgs') = HistoryOf(messages, conversation_id') ]_vars

\* the last n elements of a sequence
LastN(seq, n) == SubSeq(seq, Len(seq) - Min(n, Len(seq)) + 1, Len(seq))

\* the stored rows as history entries, roles other than user and assistant dropped
AsHistory(rows) ==
    LET kept == SelectSeq(rows, LAMBDA r : r.role \in {"user", "assistant"})
    IN  [i \in 1..Len(kept) |-> Entry(kept[i].role, "message", kept[i].content, NoSections)]

\* C3: insertion order is ascending id; for every conversation,
\* ai_get_messages(conv, limit) is the last `limit` stored messages of that
\* conversation, oldest first, none of another conversation, and the history
\* built for the next turn is the last 16 of them with role and content kept
\* and the roles other than user and assistant dropped.
C3_HistoryReplaysStore ==
    /\ \A i \in 1..Len(messages) : \A j \in (i + 1)..Len(messages) :
           messages[i].id < messages[j].id
    /\ \A conv \in Range(conversations) \cup {3} :
       \A replay \in {SelectSeq(messages, LAMBDA r : r.conv = conv)} :
           /\ \A limit \in MessageLimits :
                  /\ ai_get_messages(conv, limit) = LastN(replay, limit)
                  /\ \A r \in Range(ai_get_messages(conv, limit)) : r.conv = conv
           /\ HistoryEntries(conv) = AsHistory(LastN(replay, HistoryLimit))

\* C3, reached: a conversation holds more than 16 messages, one of the last
\* 16 has the role system, and another conversation has messages too
C3_CapAndFilterApply ==
    /\ Len(OfConversation(messages, 1)) > HistoryLimit
    /\ \E r \in Range(ai_get_messages(1, HistoryLimit)) : r.role = "system"
    /\ Len(HistoryEntries(1)) < HistoryLimit
    /\ Len(OfConversation(messages, 2)) > 0

\* the ids a memory context lists under the section of a title
SectionIds(ctx, title) ==
    UNION { {ctx[i].lines[j].id : j \in 1..Len(ctx[i].lines)} :
            i \in {k \in 1..Len(ctx) : ctx[k].title = title} }

\* content contains the query text, letter case and surrounding blanks aside
ContainsText(content, query) == Contains(Lower(content), Lower(Strip(query)))

\* C4: for every query, every pinned memory is in the memory context whatever
\* its content, and an unpinned memory is in it only if its content contains
\* the text of the query.
C4_PinnedAlwaysOthersOnMatch ==
    \A query \in Queries : \A ctx \in {MemoryContext(query)} :
    \A listed \in {SectionIds(ctx, "Pinned") \cup SectionIds(ctx, "Relevant")} :
    \A m \in Range(memories) :
        /\ m.pinned = 1 => m.id \in listed
        /\ (m.pinned = 0 /\ m.id \in listed)
               => (Strip(query) # <<>> /\ ContainsText(m.content, query))

\* C5: for every query, no id is under both Pinned and Relevant, and a pinned
\* memory is under Pinned and never under Relevant.
C5_PinnedNeverRelevant ==
    \A query \in Queries : \A ctx \in {MemoryContext(query)} :
        /\ SectionIds(ctx, "Pinned") \cap SectionIds(ctx, "Relevant") = {}
        /\ \A m \in Range(memories) :
               m.pinned = 1 => /\ m.id \in SectionIds(ctx, "Pinned")
                               /\ m.id \notin SectionIds(ctx, "Relevant")

\* C6: a blank query gives no Relevant entry, and a non-blank query makes
\* ai_search_memories return only memories whose content contains the query
\* text literally.
C6_NoImplicitWildcard ==
    \A query \in Queries :
        IF Strip(query) = <<>>
        THEN SectionIds(MemoryContext(query), "Relevant") = {}
        ELSE \A m \in Range(ai_search_memories(query, RelevantLimit)) :
                 ContainsText(m.content, query)

\* pinned descending, then importance descending, then id descending
PinnedImportanceRecency(a, b) ==
    \/ a.pinned > b.pinned
    \/ a.pinned = b.pinned /\ a.importance > b.importance
    \/ a.pinned = b.pinned /\ a.importance = b.importance /\ a.id > b.id

\* id descending
Recency(a, b) == a.id > b.id

\* a comes before b in the order named
Precedes(order, a, b) ==
    IF order = "pinned, importance, id" THEN PinnedImportanceRecency(a, b) ELSE Recency(a, b)

\* res is the first `limit` of the rows in `among`, in the order named
FirstInOrder(res, among, limit, order) ==
    /\ Len(res) = Min(limit, Cardinality(among))
    /\ Range(res) \subseteq among
    /\ \A i \in 1..Len(res) : \A j \in (i + 1)..Len(res) : Precedes(order, res[i], res[j])
    /\ \A r \in Range(res) : \A m \in among \ Range(res) : Precedes(order, r, m)

\* C7 as stated: ai_list_memories(pinned_first, limit) returns at most
\* `limit` memories in the order (pinned, importance, id), all descending,
\* for both values of pinned_first.
C7_ListOrderEitherWay ==
    \A pinned_first \in BOOLEAN : \A limit \in Limits :
        \A res \in {ai_list_memories(pinned_first, limit)} :
            FirstInOrder(res, Range(memories), limit, "pinned, importance, id")

\* C7 amended: for a limit >= 0, ai_list_memories(TRUE, limit) returns the
\* first `limit` memories in the order (pinned, importance, id), all
\* descending, and ai_list_memories(FALSE, limit) the first `limit` memories
\* by descending id alone.
C7_ListOrder ==
    \A limit \in Limits :
        /\ \A res \in {ai_list_memories(TRUE, limit)} :
               FirstInOrder(res, Range(memories), limit, "pinned, importance, id")
        /\ \A res \in {ai_list_memories(FALSE, limit)} :
               FirstInOrder(res, Range(memories), limit, "id")

\* C7, reached: the two orders differ, and a limit cuts the list
C7_OrdersDiffer ==
    /\ Len(memories) > 2
    /\ ai_list_memories(TRUE, 2) # ai_list_memories(FALSE, 2)
    /\ \E i \in 1..Len(memories) : \E j \in 1..Len(memories) :
           /\ memories[i].pinned = memories[j].pinned
           /\ memories[i].importance > memories[j].importance
           /\ memories[i].id < memories[j].id

\* C8: ai_search_memories(query, limit) returns the memories whose content
\* contains the query without regard to letter case, in the order (pinned,
\* importance, id), all descending, cut to the first `limit`.
C8_SearchIsSubstring ==
    \A query \in Queries : \A limit \in Limits :
        \A res \in {ai_search_memories(query, limit)} :
            FirstInOrder(res,
                         {m \in Range(memories) : ContainsText(m.content, query)},
                         limit, "pinned, importance, id")

\* the texts that are slash commands, and the plain ones
CommandInputs == {p \in ParsedInputs : p.kind # "not-a-command"}
PlainInputs == {p \in ParsedInputs : p.kind = "not-a-command"}

\* C9: send() on a text whose stripped form begins with "/" stores no chat
\* message, hands no list to a worker and starts none, whatever the command;
\* send() on any other text has no command effect (no memory changes, no
\* command reply), and when no store operation fails and the vault's CV file
\* can be looked at, the text is stored and sent on.
\* Each line reads: the step has the effect, or it is no such send().
C9_CommandsBypassChat ==
    [][ /\ \/ /\ messages' = messages
              /\ worker' = worker
              /\ workerMsgs' = workerMsgs
              /\ btn_send' = btn_send
           \/ ~ \E p \in CommandInputs : \E c \in SendCases(p) : send(p, c)
        /\ \/ /\ memories' = memories
              /\ reply' = "no reply"
           \/ ~ \E p \in PlainInputs : \E c \in SendCases(p) : send(p, c)
        /\ \/ /\ worker' = "streaming"
              /\ Len(messages') = Len(messages) + 1
           \/ WorkerRunning
           \/ ~ \E p \in PlainInputs : \E c \in SendCases(p) :
                    /\ p.text # <<>> /\ c.fail = "none" /\ c.vf.stat = "ok"
                    /\ send(p, c)
      ]_vars

\* C9, reached: a command was answered in a session that holds a memory and
\* has stored no message and started no worker
C9_CommandHandled ==
    /\ reply = "Saved memory"
    /\ Len(memories) > 0
    /\ Len(messages) = 0
    /\ worker = "idle"
    /\ workerMsgs = <<>>

\* /pin, /unpin and /forget texts whose argument is missing or no integer
BadArgumentInputs ==
    {p \in ParsedInputs : p.kind \in {"pin", "unpin", "forget"} /\ ~p.argIsInt}

\* C10: /pin, /unpin or /forget with a missing or non-integer argument
\* changes no table (memories, messages, conversations), lets no exception
\* leave the handler, and leaves the session as ready for the next send as
\* it was.  It reads: the step has the effect, or it is no such send().
C10_BadArgumentIsHarmless ==
    [][ \/ /\ memories' = memories
           /\ messages' = messages
           /\ conversations' = conversations
           /\ raised' = FALSE
           /\ pc' = "ready"
           /\ worker' = worker
           /\ btn_send' = btn_send
        \/ ~ \E p \in BadArgumentInputs : \E c \in SendCases(p) : send(p, c)
      ]_vars

\* C10, reached: /pin without an argument was answered with the usage hint
\* in a session that holds a memory, unpinned still
C10_BadArgumentAnswered ==
    /\ reply = "Usage: /pin"
    /\ raised = FALSE
    /\ Len(memories) > 0
    /\ \A i \in 1..Len(memories) : memories[i].pinned = 0

\* the usage hint of /pin, /unpin, /forget
UsageHint(kind) ==
    IF kind = "pin" THEN "Usage: /pin"
    ELSE IF kind = "unpin" THEN "Usage: /unpin"
    ELSE "Usage: /forget"

\* one send() in which no store operation fails and every table is readable
AllWell == [fail |-> "none", down |-> {}, vf |-> VaultFileOk]

\* C11: /pin, /unpin or /forget with a missing argument and with a
\* non-integer argument are both answered with the usage hint of the command.
\* It reads: the step has the effect, or the worker runs (send() returns at
\* once), or it is no such send().
C11_BadArgumentGetsUsageHint ==
    [][ \A p \in BadArgumentInputs :
            \/ reply' = UsageHint(p.kind)
            \/ WorkerRunning
            \/ ~ send(p, AllWell)
      ]_vars

\* /pin <id> and /unpin <id> with an integer id
PinInputs ==
    {p \in ParsedInputs \cup ButtonInputs : p.kind \in {"pin", "unpin"} /\ p.argIsInt}

\* the flag /pin and /unpin write
PinFlag(kind) == IF kind = "pin" THEN 1 ELSE 0

\* C12: /pin <id> (and /unpin <id>) sets the flag of that memory, answers
\* with its confirmation and raises nothing whether or not the flag was set
\* before; the table it leaves is left as it is by the same command again,
\* and a submission that follows the same command directly changes nothing.
C12_PinTwiceIsPinOnce ==
    [][ \A p \in PinInputs :
            \/ /\ memories' = SetMemoryPinned(memories, p.argVal, PinFlag(p.kind))
               /\ SetMemoryPinned(memories', p.argVal, PinFlag(p.kind)) = memories'
               /\ reply' = CommandReply(p, TRUE)
               /\ reply' \in {"Pinned memory", "Unpinned memory"}
               /\ raised' = FALSE
               /\ (reply = CommandReply(p, TRUE)) => (memories' = memories)
            \/ WorkerRunning
            \/ ~ send(p, AllWell)
      ]_vars

\* C12, reached: /pin 1 was answered with its confirmation and memory 1 is
\* pinned; the same command can be submitted again from here
C12_PinnedAndAnswered ==
    /\ reply = "Pinned memory"
    /\ \E i \in 1..Len(memories) : memories[i].id = 1 /\ memories[i].pinned = 1
    /\ ~WorkerRunning

\* /new and /reset
NewInputs == {p \in ParsedInputs \cup ButtonInputs : p.kind = "new-session"}

\* C13: an accepted /new makes a conversation current whose id is not 0,
\* differs from the one current before and from every conversation id in the
\* store; no stored message belongs to it, so the list built for the next
\* turn has an empty history.  In every state the history rows read for the
\* next turn are rows of the current conversation.
C13_NewStartsFresh ==
    [][ /\ \A r \in Range(GetMessages(messages', conversation_id', HistoryLimit)) :
               r.conv = conversation_id'
        /\ \A p \in NewInputs :
               \/ /\ conversation_id' # 0
                  /\ conversation_id' # conversation_id
                  /\ conversation_id' \notin Range(conversations)
                  /\ conversations' = Append(conversations, conversation_id')
                  /\ \A r \in Range(messages') : r.conv # conversation_id'
                  /\ \A user_text \in BuildTexts :
                         HistoryPart(BuildMessagesOn(user_text, {}, messages',
                                                     conversation_id', attachments')) = <<>>
               \/ WorkerRunning
               \/ ~ send(p, AllWell)
      ]_vars

\* C13, reached: /new was answered after messages were stored in an earlier
\* conversation, and nothing is stored under the new one
C13_FreshAfterChat ==
    /\ reply = "New chat started"
    /\ Len(conversations) >= 2
    /\ conversation_id = conversations[Len(conversations)]
    /\ Len(messages) > 0
    /\ \A r \in Range(messages) : r.conv # conversation_id

\* C14: a send() while the worker runs changes nothing - no message stored,
\* no worker started, no list handed over, no button, conversation,
\* attachment or memory changed - whichever text is in the box; and a worker
\* is started only when none runs.
C14_SendWhileStreamingRejected ==
    [][ /\ \/ UNCHANGED <<pc, picked, conversations, messages, memories, conversation_id,
                          attachments, envVars, runVars>>
           \/ ~WorkerRunning
           \/ ~ \E p \in ParsedInputs : \E c \in SendCases(p) : send(p, c)
        /\ (worker # "streaming" /\ worker' = "streaming") => ~WorkerRunning
      ]_vars

\* C14, reached: a worker streams over the list send() built for it; the
\* Send button is disabled and the Enter key still calls send()
C14_WorkerStreaming ==
    /\ worker = "streaming"
    /\ workerMsgs # <<>>
    /\ ~btn_send
    /\ Len(messages) > 0

\* the step is _on_done or _on_error taking the queued signal
TakesSignal == Len(signal) > 0 /\ signal' = Tail(signal)

\* C15: an assistant message is appended while the user message of its own
\* turn is the last user message stored, so after it and before the user
\* message of any later turn.
C15_UserThenAssistant ==
    [][ (TakesSignal /\ Len(messages') > Len(messages))
        => /\ messages'[Len(messages')].role = "assistant"
           /\ Head(signal).turn # 0
           /\ Head(signal).turn = LastUserId(messages) ]_vars

\* C16: an assistant message is stored only for a stream that ended with its
\* done line; a stream that raised or ended early stores nothing.
C16_OnlyCompleteAnswersStored ==
    [][ (TakesSignal /\ Len(messages') > Len(messages)) => Head(signal).complete ]_vars

\* C17: a worker's run ends with one signal and stores nothing; on the error
\* signal both controls are enabled, the warning is shown, no table changes
\* and no worker is started; and the send() that follows the warning, once
\* the worker's run() has returned, stores its message and starts a worker.
C17_ErrorEndsTheTurn ==
    [][ /\ (worker = "streaming" /\ worker' # "streaming")
           => /\ worker' = "emitted"
              /\ Len(signal') = Len(signal) + 1
              /\ messages' = messages
        /\ (TakesSignal /\ Head(signal).type = "error")
           => /\ btn_send' /\ btn_upload'
              /\ reply' = "Ollama error"
              /\ raised' = FALSE
              /\ messages' = messages /\ conversations' = conversations
              /\ memories' = memories
              /\ worker' = worker /\ workerMsgs' = workerMsgs
        /\ \/ /\ worker' = "streaming"
              /\ Len(messages') = Len(messages) + 1
           \/ reply # "Ollama error"
           \/ WorkerRunning
           \/ ~ \E p \in PlainInputs : p.text # <<>> /\ send(p, AllWell)
      ]_vars

\* C17, reached: the warning is shown for a turn whose user message is the
\* last row stored; the controls are enabled and no worker runs
C17_WarningShown ==
    /\ reply = "Ollama error"
    /\ btn_send /\ btn_upload
    /\ worker = "idle"
    /\ signal = <<>>
    /\ Len(messages) > 0
    /\ messages[Len(messages)].role = "user"

\* the step starts a worker
StartsWorker == worker # "streaming" /\ worker' = "streaming"

\* the text of the turn a list was built for: its last entry
TextOf(msgs) == msgs[Len(msgs)].text

\* one send() in which a store read of _build_messages raises
BuildFails == [fail |-> "build", down |-> {}, vf |-> VaultFileOk]

\* the tables _app_context reads
AppTables == {"jobs", "reminders", "files"}

\* C18 as stated: a store read that fails while _build_messages runs is
\* raised to send(), and the list a worker is started with is the one built
\* from every table: nothing is missing from it because a read failed.
C18_NoReadFailureIsSwallowed ==
    [][ /\ StartsWorker
           => workerMsgs' = BuildMessagesOn(TextOf(workerMsgs'), {}, messages',
                                            conversation_id', attachments')
        /\ \A p \in PlainInputs :
               \/ raised' /\ worker' = worker /\ workerMsgs' = workerMsgs
               \/ WorkerRunning \/ p.text = <<>>
               \/ ~ send(p, BuildFails)
      ]_vars

\* C18, amended: a failing read of the memories or of the history is raised
\* to send(), no list is returned and no worker is started; a list a worker
\* is started with has its memory context and history as built from the
\* store, and differs from the list built from every table at most in
\* snapshot sections whose read failed.
C18_UnguardedReadsRaise ==
    [][ /\ StartsWorker
           => /\ \E down \in SUBSET AppTables :
                     workerMsgs' = BuildMessagesOn(TextOf(workerMsgs'), down, messages',
                                                   conversation_id', attachments')
              /\ HistoryPart(workerMsgs') = HistoryOf(messages', conversation_id')
              /\ \A user_text \in {TextOf(workerMsgs')} :
                     IF MemoryContext(user_text) = NoSections
                     THEN \A i \in 1..Len(workerMsgs') : workerMsgs'[i].kind # "memory"
                     ELSE \E i \in 1..Len(workerMsgs') :
                              /\ workerMsgs'[i].kind = "memory"
                              /\ workerMsgs'[i].sections = MemoryContext(user_text)
        /\ \A p \in PlainInputs :
               \/ raised' /\ worker' = worker /\ workerMsgs' = workerMsgs
               \/ WorkerRunning \/ p.text = <<>>
               \/ ~ send(p, BuildFails)
      ]_vars

\* C18, reached: send() was left by the error of _build_messages after the
\* user message was stored; no worker runs and none was handed a list
C18_BuildRaised ==
    /\ raised
    /\ worker = "idle"
    /\ workerMsgs = <<>>
    /\ signal = <<>>
    /\ ~btn_send
    /\ Len(messages) > 0
    /\ messages[Len(messages)].role = "user"

\* C19: whichever reads fail, the snapshot has the three sections jobs,
\* reminders, files in this order; a section whose read failed or found
\* nothing is the "none" line, and every other section holds the lines of
\* its data (at most 10, 12, 10), none of them the "none" line.
C19_ThreeSectionsOrNone ==
    \A down \in SUBSET AppTables : \A ctx \in {AppContext(down)} :
        \A js \in {Limit(get_all_jobs, 10)} :
        \A rs \in {Limit(UpcomingReminders(today, 7), 12)} :
        \A fs \in {Limit(list_files, 10)} :
            /\ Len(ctx) = 3
            /\ ctx[1].title = "Recent job applications"
            /\ ctx[2].title = "Upcoming reminders (7 days)"
            /\ ctx[3].title = "Recent File Vault items"
            /\ \A i \in 1..3 : Len(ctx[i].lines) > 0
            /\ ctx[1].lines = IF "jobs" \in down \/ Len(js) = 0
                              THEN <<NoneLine>> ELSE JobLines(js)
            /\ ctx[2].lines = IF "reminders" \in down \/ Len(rs) = 0
                              THEN <<NoneLine>> ELSE ReminderLines(rs)
            /\ ctx[3].lines = IF "files" \in down \/ Len(fs) = 0
                              THEN <<NoneLine>> ELSE FileLines(fs)
            /\ \A i \in 1..Len(js) : JobLines(js)[i].tag # NoneLine.tag
            /\ \A i \in 1..Len(rs) : ReminderLines(rs)[i].tag # NoneLine.tag
            /\ \A i \in 1..Len(fs) : FileLines(fs)[i].id # NoneLine.id
            /\ \A user_text \in {Txt.hi} : \A msgs \in {BuildMessages(user_text, down)} :
                   msgs[1] = Entry("system", "app", NoText, ctx)

\* C19, reached: a worker was started with a snapshot whose jobs section is
\* the "none" line because the read of jobs failed, while the store holds
\* jobs and the reminders and files sections list their data
C19_OneSectionFellBack ==
    /\ Len(jobs) > 0
    /\ worker = "streaming"
    /\ Len(workerMsgs) > 0
    /\ workerMsgs[1].kind = "app"
    /\ workerMsgs[1].sections[1].lines = <<NoneLine>>
    /\ workerMsgs[1].sections[2].lines # <<NoneLine>>
    /\ workerMsgs[1].sections[3].lines # <<NoneLine>>

\* the text the reader of the file's type hands to _clip
TextHandedToClip(f) ==
    IF Lower(f.suffix) \in TEXT_EXTS THEN UniversalNewlines(f.text)
    ELSE IF Lower(f.suffix) = <<".","d","o","c","x">> THEN DocxText(f.parts)
    ELSE PdfText(f.parts)

\* the text ends with the truncation marker
EndsWithMarker(t) ==
    /\ Len(t) >= Len(TruncationMarker)
    /\ SubSeq(t, Len(t) - Len(TruncationMarker) + 1, Len(t)) = TruncationMarker

\* C20: the text extract_text_from_file(path, MaxChars) returns is at most
\* MaxChars characters long; it ends with the marker when the stripped input
\* was longer than MaxChars and has no marker otherwise.
C20_NeverLongerThanMaxChars ==
    /\ \A a \in Range(attachments) : Len(a.text) <= MaxChars
    /\ \A f \in ExtractFiles : \A got \in {ExtractText(f, MaxChars)} :
           /\ Len(got[2]) <= MaxChars
           /\ EndsWithMarker(got[2])
              <=> (f.exists /\ f.readable /\ got[1] # "UNKNOWN"
                   /\ Len(Strip(TextHandedToClip(f))) > MaxChars)

\* the labels extract_text_from_file names in its results
Labels == { "PDF", "DOCX", "TEXT", "UNKNOWN", "MISSING" }

\* C22: extract_text_from_file never raises: every call returns a pair
\* (label, text) with the label one of PDF, DOCX, TEXT, UNKNOWN, MISSING; a
\* missing file gives (MISSING, ""), an unsupported extension (UNKNOWN, ""),
\* and a supported file that cannot be read its label with the empty text.
C22_NeverRaisesLabelIsKnown ==
    /\ ~raised
    /\ \A a \in Range(attachments) :
           /\ a.label \in Labels
           /\ a.label \in {"MISSING", "UNKNOWN"} => a.text = NoText
    /\ \A f \in {g \in ExtractFiles : g.stat = "ok"} :
       \A got \in {ExtractText(f, MaxChars)} :
           /\ ~f.exists => got = <<"MISSING", NoText>>
           /\ f.exists /\ ~f.readable => got[2] = NoText
           /\ (f.exists /\ Lower(f.suffix) = <<".","p","n","g">>) => got = <<"UNKNOWN", NoText>>

\* the section of a context entry with the given title, <<>> if it has none
SectionOf(entry, title) ==
    LET found == SelectSeq(entry.sections, LAMBDA sec : sec.title = title)
    IN  IF Len(found) = 0 THEN <<>> ELSE found[1].lines

\* the entry of the given kind in a message list: a sequence of at most one
EntriesOf(msgs, kind) == SelectSeq(msgs, LAMBDA e : e.kind = kind)

\* C21: whatever the store and the session hold, the list _build_messages
\* returns has at most 3 + 16 + 1 entries; its snapshot lists at most 10
\* jobs, 12 reminders, all of today and the next 6 days, and 10 files; its
\* memory context at most 50 pinned and 20 relevant memories; its attachment
\* context the last 3 attachments and no other; its history at most 16
\* messages.
C21_EverySectionIsCut ==
    [][ workerMsgs' # workerMsgs =>
        \A msgs \in {workerMsgs'} :
        /\ Len(msgs) <= 3 + HistoryLimit + 1
        /\ Len(HistoryPart(msgs)) <= HistoryLimit
        /\ \A app \in Range(EntriesOf(msgs, "app")) :
               /\ Len(app.sections[1].lines) <= JobsShown
               /\ Len(app.sections[2].lines) <= RemindersShown
               /\ Len(app.sections[3].lines) <= FilesShown
               /\ \A ln \in Range(app.sections[2].lines) :
                      ln.tag = NoneLine.tag \/ (today <= ln.id /\ ln.id <= today + 6)
        /\ \A mem \in Range(EntriesOf(msgs, "memory")) :
               /\ Len(SectionOf(mem, "Pinned")) <= PinnedLimit
               /\ Len(SectionOf(mem, "Relevant")) <= RelevantLimit
        /\ \A att \in Range(EntriesOf(msgs, "attachments")) :
           \A shown \in {att.sections[1].lines} :
           \A n \in {Len(attachments)} :
               /\ Len(shown) = Min(n, AttachTail)
               /\ \A i \in 1..Len(shown) :
                      /\ shown[i].name = attachments[n - Len(shown) + i].name
                      /\ shown[i].tag = attachments[n - Len(shown) + i].label ]_vars

\* C21, reached: the builder returned a list of 3 + 16 + 1 entries over a
\* store and a session that hold more than every section shows
C21_EverySectionFull ==
    /\ Len(workerMsgs) = 3 + HistoryLimit + 1
    /\ Len(attachments) > AttachTail
    /\ Len(OfConversation(messages, conversation_id)) > HistoryLimit
    /\ Len(workerMsgs[1].sections[1].lines) = JobsShown
    /\ Len(workerMsgs[1].sections[2].lines) = RemindersShown
    /\ Len(workerMsgs[1].sections[3].lines) = FilesShown
    /\ Len(SectionOf(workerMsgs[2], "Pinned")) = PinnedLimit
    /\ Len(SectionOf(workerMsgs[2], "Relevant")) = RelevantLimit
    /\ Len(workerMsgs[3].sections[1].lines) = AttachTail

\* what _build_messages reads of the store and the session
BuildInputs == <<jobs, reminders, files, conversations, messages, memories,
                 conversation_id, attachments>>

\* C23: building the context is read-only: a call of _build_messages leaves
\* jobs, reminders, files, conversations, messages, memories, the current
\* conversation and the attachments as they were.
C23_BuildIsReadOnly ==
    [][ workerMsgs' # workerMsgs => UNCHANGED BuildInputs ]_vars

\* C23, reached: the builder returned a list with all five parts over a store
\* and a session that hold rows
C23_BuiltOverFilledStore ==
    /\ Len(workerMsgs) > 4
    /\ Len(messages) > 0 /\ Len(memories) > 0 /\ Len(attachments) > 0

\* C24: with the same user text, conversation, attachments and store
\* contents, a second call of _build_messages returns the list the first call
\* returned.  The steps of SpecBuild leave the store, the conversation and
\* the attachments as Init chose them, so every second call with the text of
\* the first is such a call.
C24_SameStoreSameList ==
    [][ \A user_text \in ContextTexts :
            (workerMsgs # <<>> /\ TextOf(workerMsgs) = user_text /\ Build(user_text))
                => workerMsgs' = workerMsgs ]_vars

\* seq is the beginning of longer
IsPrefix(seq, longer) ==
    Len(seq) <= Len(longer) /\ SubSeq(longer, 1, Len(seq)) = seq

\* C25: stored chat data is append-only: every step of the session keeps
\* each stored message (conversation, role, content, id) at its place and
\* only adds rows behind them, the ids rising with the place; every
\* conversation stays in the store, the current one is only replaced by
\* another.
C25_ChatDataIsAppendOnly ==
    [][ /\ IsPrefix(messages, messages')
        /\ \A i \in 1..Len(messages') : \A j \in 1..Len(messages') :
               i < j => messages'[i].id < messages'[j].id
        /\ IsPrefix(conversations, conversations')
        /\ conversation_id' # conversation_id => conversation_id' \in Range(conversations')
      ]_vars

\* C25, reached: a second conversation is current, and the store holds the
\* question and the answer of the first
C25_TurnKeptAfterNewChat ==
    /\ Len(conversations) > 1
    /\ conversation_id = conversations[Len(conversations)]
    /\ \E i \in 1..Len(messages) : \E j \in 1..Len(messages) :
           /\ i < j
           /\ messages[i].role = "user" /\ messages[j].role = "assistant"
           /\ messages[i].conv = conversations[1] /\ messages[j].conv = conversations[1]

\* /pin <id>, /unpin <id> and /forget <id> with an integer id
IdInputs ==
    {p \in ParsedInputs \cup ButtonInputs :
        p.kind \in {"pin", "unpin", "forget"} /\ p.argIsInt}

\* C26: /pin <id> and /unpin <id> change the pinned flag of the memory with
\* that id and nothing else; /forget <id> removes that memory and no other;
\* every other memory stays as it is, at its place; with no memory of that id
\* the table is unchanged.  It reads: the step has the effect, or the worker
\* runs, or it is no such send().
C26_OnlyThatMemoryChanges ==
    [][ \A p \in IdInputs :
            \/ /\ p.kind \in {"pin", "unpin"} =>
                      /\ Len(memories') = Len(memories)
                      /\ \A i \in 1..Len(memories) :
                             memories'[i] =
                                 IF memories[i].id = p.argVal
                                 THEN [memories[i] EXCEPT !.pinned = PinFlag(p.kind)]
                                 ELSE memories[i]
               /\ p.kind = "forget" =>
                      memories' = SelectSeq(memories, LAMBDA m : m.id # p.argVal)
               /\ (\A m \in Range(memories) : m.id # p.argVal) => memories' = memories
               /\ messages' = messages
               /\ conversations' = conversations
            \/ WorkerRunning
            \/ ~ send(p, AllWell)
      ]_vars

\* C26, reached: /forget 1 was answered, memory 1 is gone and a memory saved
\* after it is still there
C26_ForgotOneKeptOther ==
    /\ reply = "Deleted memory"
    /\ Len(memories) > 0
    /\ \A m \in Range(memories) : m.id # 1

\* /remember with and without a text
RememberInputs == {p \in ParsedInputs \cup ButtonInputs : p.kind = "remember"}

\* C29: /remember <text> adds one memory behind the stored ones: it holds the
\* text, is not pinned and has an id above every stored id; the stored
\* memories, the messages and the conversations stay as they are.  /remember
\* without a text adds nothing and answers with the usage hint.  It reads:
\* the step has the effect, or the worker runs, or it is no such send().
C29_RememberAddsOneMemory ==
    [][ \A p \in RememberInputs :
            \/ /\ p.hasArg =>
                      /\ Len(memories') = Len(memories) + 1
                      /\ IsPrefix(memories, memories')
                      /\ \E new \in {memories'[Len(memories')]} :
                             /\ new.content = p.content
                             /\ new.content # <<>>
                             /\ new.pinned = 0
                             /\ new.importance = RememberImportance
                             /\ \A m \in Range(memories) : m.id < new.id
                      /\ reply' = "Saved memory"
               /\ ~p.hasArg =>
                      /\ memories' = memories
                      /\ reply' = "Usage: /remember"
               /\ messages' = messages
               /\ conversations' = conversations
            \/ WorkerRunning
            \/ ~ send(p, AllWell)
      ]_vars

\* C29, reached: /remember Cv was answered a second time: two memories hold
\* the text, the second with the higher id, none is pinned
C29_RememberedTwice ==
    /\ reply = "Saved memory"
    /\ Len(memories) = 2
    /\ memories[1].id < memories[2].id
    /\ \A m \in Range(memories) : m.content = Txt.Cv /\ m.pinned = 0

\* the list _build_messages would return over the given session
AttachmentEntries(rows, conv, atts) ==
    EntriesOf(BuildMessagesOn(Txt.hi, {}, rows, conv, atts), "attachments")

\* C30: the attachments change only in upload, the vault auto-attach of a
\* plain send, remove_attachment and clear_attachments.  New Chat, /new and
\* every other slash command leave them as they are, and the list built for
\* the first turn of the new conversation has the attachment entry it would
\* have had before; clear_attachments leaves none; remove_attachment with an
\* index outside 0..len-1 changes nothing, with an index inside it takes out
\* that one and keeps the others in their order.
C30_AttachmentsOutliveTheChat ==
    [][ /\ \/ attachments' = attachments
           \/ \E f \in UploadFiles : UploadPick(f)
           \/ UploadClose
           \/ ClearAttachments
           \/ \E index \in 0..Len(attachments) : RemoveAttachment(index)
           \/ \E p \in PlainInputs \cup ButtonInputs : \E c \in SendCases(p) :
                  p.kind = "not-a-command" /\ send(p, c)
        /\ \/ /\ attachments' = attachments
              /\ conversation_id' # conversation_id =>
                     \E entries \in {AttachmentEntries(messages', conversation_id',
                                                       attachments')} :
                         /\ entries = AttachmentEntries(messages, conversation_id,
                                                        attachments)
                         /\ Len(attachments) > 0 => Len(entries) = 1
           \/ /\ ~ \E dbOk \in BOOLEAN : NewChat(dbOk)
              /\ ~ \E p \in CommandInputs \cup ButtonInputs : \E c \in SendCases(p) :
                       p.kind # "not-a-command" /\ send(p, c)
        /\ \/ attachments' = <<>>
           \/ ~ ClearAttachments
        /\ \A index \in 0..Len(attachments) :
               \/ /\ index >= Len(attachments) => attachments' = attachments
                  /\ index < Len(attachments) =>
                         /\ Len(attachments') = Len(attachments) - 1
                         /\ \A i \in 1..Len(attachments') :
                                attachments'[i] =
                                    attachments[IF i <= index THEN i ELSE i + 1]
               \/ ~ RemoveAttachment(index)
      ]_vars

\* C30, reached: /new was answered in a session with an attachment of the
\* conversation before
C30_AttachedBeforeNewChat ==
    /\ reply = "New chat started"
    /\ Len(attachments) > 0
    /\ Len(conversations) > 1
    /\ conversation_id = conversations[Len(conversations)]

\* C27: the answer _on_done stores goes to the conversation of the user
\* message of its turn, whatever was done between the end of the worker and
\* the handling of its done signal.
C27_AnswerStoredWithItsQuestion ==
    [][ (TakesSignal /\ Len(messages') > Len(messages)) =>
            \A u \in Range(messages) :
                u.id = Head(signal).turn => messages'[Len(messages')].conv = u.conv
      ]_vars

\* C28: the Send and Upload controls are disabled only while a turn is under
\* way: a worker runs, or its done or error signal is queued and will enable
\* them.
C28_DisabledOnlyWhileInFlight ==
    (~btn_send \/ ~btn_upload) => (WorkerRunning \/ Len(signal) > 0)

====
